---------------------------- MODULE Spec2Model ----------------------------
(***************************************************************************)
(* Verification model of the re-compression pipeline:                      *)
(*   - the container codec (pack_container, unpack_container,              *)
(*     is_container),                                                      *)
(*   - the timeout estimator (est_timeout_adaptativo),                     *)
(*   - the search loop with its retry/backoff supervisor (main of the      *)
(*     recompress_conteiner_* scripts),                                    *)
(*   - the algorithm detector and the two-stage restore pipeline (main of  *)
(*     descomprime_conteiner_bsc.py).                                      *)
(*                                                                         *)
(* Conventions.  Python's None is the empty sequence <<>> and a present    *)
(* value x is <<x>>.  Bytes are the integers 0..255, a file's content is   *)
(* the sequence of its bytes, a Python str is the sequence of its code     *)
(* points.  A reduction percentage is kept in hundredths of a percent,     *)
(* rounded down, so that its comparison with THRESHOLD_PCT is the exact    *)
(* comparison of the two real numbers; the sizes drawn below never put a   *)
(* reduction within floating-point rounding of the threshold.  A           *)
(* throughput (bytes per second) is the exact fraction num/den.            *)
(***************************************************************************)
EXTENDS Integers, Sequences, FiniteSets, TLC

None == <<>>
Some(x) == <<x>>
IsNone(o) == o = <<>>
Val(o) == o[1]

Min(a, b) == IF a <= b THEN a ELSE b
Max(a, b) == IF a >= b THEN a ELSE b

(***************************************************************************)
(* Bounds of the model.                                                    *)
(***************************************************************************)
\* Decoded integers at or above HugeInt are collapsed to HugeInt: every use
\* of a decoded integer compares it with a file size or with a limit far
\* below it, or bounds a read of the file.
HugeInt == 1073741824
\* Largest copy count of the ordinary codec and restore runs.
MaxCopies == 3

(***************************************************************************)
(* struct.pack / struct.unpack, little-endian                              *)
(***************************************************************************)
\* struct.pack with '>' in the place of '<': the most significant byte first.
RECURSIVE pack_be(_, _)
pack_be(n, width) ==
    IF width = 0 THEN <<>> ELSE pack_be(n \div 256, width - 1) \o <<n % 256>>

RECURSIVE pack_le(_, _)
pack_le(n, width) ==
    IF width = 0 THEN <<>> ELSE <<n % 256>> \o pack_le(n \div 256, width - 1)

RECURSIVE unpack_le(_)
unpack_le(bs) ==
    IF bs = <<>> THEN 0
    ELSE LET rest == unpack_le(Tail(bs))
         IN  IF rest >= HugeInt \div 256 THEN HugeInt ELSE bs[1] + 256 * rest

(***************************************************************************)
(* str.encode('utf-8') and bytes.decode('utf-8', errors='replace'), for    *)
(* code points below 65536 (encodings of one to three bytes).              *)
(***************************************************************************)
utf8_char(cp) ==
    IF cp < 128 THEN <<cp>>
    ELSE IF cp < 2048 THEN <<192 + (cp \div 64), 128 + (cp % 64)>>
    ELSE <<224 + (cp \div 4096), 128 + ((cp \div 64) % 64), 128 + (cp % 64)>>

RECURSIVE utf8_encode(_)
utf8_encode(s) ==
    IF s = <<>> THEN <<>> ELSE utf8_char(s[1]) \o utf8_encode(Tail(s))

IsCont(b) == b >= 128 /\ b <= 191

REPLACEMENT_CHAR == 65533

RECURSIVE utf8_decode(_)
utf8_decode(bs) ==
    IF bs = <<>> THEN <<>>
    ELSE LET b == bs[1]
             n == Len(bs)
         IN  IF b < 128 THEN <<b>> \o utf8_decode(Tail(bs))
             ELSE IF b >= 194 /\ b <= 223 /\ n >= 2 /\ IsCont(bs[2])
                  THEN <<(b - 192) * 64 + (bs[2] - 128)>>
                       \o utf8_decode(SubSeq(bs, 3, n))
             ELSE IF b >= 224 /\ b <= 239 /\ n >= 3 /\ IsCont(bs[2]) /\ IsCont(bs[3])
                     /\ (b = 224 => bs[2] >= 160) /\ (b = 237 => bs[2] <= 159)
                  THEN <<(b - 224) * 4096 + (bs[2] - 128) * 64 + (bs[3] - 128)>>
                       \o utf8_decode(SubSeq(bs, 4, n))
             ELSE IF b >= 224 /\ b <= 239 /\ n >= 2 /\ IsCont(bs[2])
                     /\ (b = 224 => bs[2] >= 160) /\ (b = 237 => bs[2] <= 159)
                  THEN <<REPLACEMENT_CHAR>> \o utf8_decode(SubSeq(bs, 3, n))
             ELSE <<REPLACEMENT_CHAR>> \o utf8_decode(Tail(bs))

(***************************************************************************)
(* f"{i:04d}": the decimal digits of i, zero-padded to at least 4.         *)
(***************************************************************************)
RECURSIVE digits(_)
digits(n) ==
    IF n < 10 THEN <<48 + n>> ELSE digits(n \div 10) \o <<48 + (n % 10)>>

\* f"{it:03d}", the format of the iteration directories and files.
format_03d(i) ==
    LET d == digits(i)
    IN  IF Len(d) >= 3 THEN d ELSE [k \in 1..(3 - Len(d)) |-> 48] \o d

\* f"{i:03d}" in the place of f"{i:04d}".
format_04d_short(i) == format_03d(i)

format_04d(i) ==
    LET d == digits(i)
    IN  IF Len(d) >= 4 THEN d ELSE [k \in 1..(4 - Len(d)) |-> 48] \o d

\* "copy_"
COPY_PREFIX == <<99, 111, 112, 121, 95>>

\* name = f"copy_{i:04d}_" + base
entry_name(i, base) == COPY_PREFIX \o format_04d(i) \o <<95>> \o base

(***************************************************************************)
(* pack_container: [u32 N] then N * [u16 len(name)][name][u64 len(data)]   *)
(* [data].  The entries lo..hi are written in increasing order; the range  *)
(* is halved only to keep the depth of the recursion logarithmic.          *)
(***************************************************************************)
pack_entry(i, data, base) ==
    LET name_b == utf8_encode(entry_name(i, base))
    IN  pack_le(Len(name_b), 2) \o name_b \o pack_le(Len(data), 8) \o data

RECURSIVE pack_entries(_, _, _, _)
pack_entries(lo, hi, data, base) ==
    IF lo > hi THEN <<>>
    ELSE IF lo = hi THEN pack_entry(lo, data, base)
    ELSE LET mid == (lo + hi) \div 2
         IN  pack_entries(lo, mid, data, base) \o pack_entries(mid + 1, hi, data, base)

pack_container(data, copies, base) ==
    pack_le(copies, 4) \o pack_entries(1, copies, data, base)

(***************************************************************************)
(* File reads: f.read(k) at position pos returns at most k bytes.          *)
(***************************************************************************)
read(bytes, pos, k) == SubSeq(bytes, pos + 1, Min(pos + k, Len(bytes)))

(***************************************************************************)
(* is_container: the header and the first entry only.  Any exception       *)
(* (there is none on these paths once the reads are length-checked)        *)
(* returns False.                                                          *)
(***************************************************************************)
\* The largest count is_container accepts (1_000_000 in the source), scaled
\* down with the copy counts of the runs.
SNIFF_MAX_COUNT == 10
SNIFF_MAX_NAME == 4096

\* is_container that looks at nothing but the presence of the 4-byte count.
is_container_header_only(bytes) == Len(read(bytes, 0, 4)) = 4

\* is_container asking for more bytes after the first size field than the
\* first payload has.
is_container_strict(bytes) ==
    IF Len(read(bytes, 0, 4)) < 4 THEN FALSE
    ELSE LET n == unpack_le(read(bytes, 0, 4))
         IN  IF n = 0 \/ n > SNIFF_MAX_COUNT THEN FALSE
             ELSE LET name_len_b == read(bytes, 4, 2)
                  IN  IF Len(name_len_b) < 2 THEN FALSE
                      ELSE LET name_len == unpack_le(name_len_b)
                           IN  IF name_len <= 0 \/ name_len > SNIFF_MAX_NAME THEN FALSE
                               ELSE LET name == read(bytes, 6, name_len)
                                    IN  IF Len(name) < name_len THEN FALSE
                                        ELSE LET size_b == read(bytes, 6 + name_len, 8)
                                                 tell == 6 + name_len + Len(size_b)
                                             IN  IF Len(size_b) < 8 THEN FALSE
                                                 ELSE IF unpack_le(size_b) >= Len(bytes) - tell
                                                      THEN FALSE
                                                 ELSE TRUE

is_container(bytes) ==
    IF Len(read(bytes, 0, 4)) < 4 THEN FALSE
    ELSE LET n == unpack_le(read(bytes, 0, 4))
         IN  IF n = 0 \/ n > SNIFF_MAX_COUNT THEN FALSE
             ELSE LET name_len_b == read(bytes, 4, 2)
                  IN  IF Len(name_len_b) < 2 THEN FALSE
                      ELSE LET name_len == unpack_le(name_len_b)
                           IN  IF name_len <= 0 \/ name_len > SNIFF_MAX_NAME THEN FALSE
                               ELSE LET name == read(bytes, 6, name_len)
                                    IN  IF Len(name) < name_len THEN FALSE
                                        ELSE LET size_b == read(bytes, 6 + name_len, 8)
                                                 tell == 6 + name_len + Len(size_b)
                                             IN  IF Len(size_b) < 8 THEN FALSE
                                                 ELSE IF unpack_le(size_b) > Len(bytes) - tell
                                                      THEN FALSE
                                                 ELSE TRUE

(***************************************************************************)
(* unpack_container.  struct.unpack raises on a short read; read() of a    *)
(* name or of data does not.  The result carries the files written so far  *)
(* (in order) and whether the call returned (ok) or raised.  Writing to    *)
(* an empty name addresses the output directory itself and raises.         *)
(***************************************************************************)
RECURSIVE unpack_entries(_, _, _, _)
unpack_entries(bytes, pos, left, written) ==
    IF left = 0 THEN [ok |-> TRUE, files |-> written]
    ELSE LET name_len_b == read(bytes, pos, 2)
         IN  IF Len(name_len_b) < 2 THEN [ok |-> FALSE, files |-> written]
             ELSE LET name_len == unpack_le(name_len_b)
                      name_b == read(bytes, pos + 2, name_len)
                      name == utf8_decode(name_b)
                      p1 == pos + 2 + Len(name_b)
                      data_len_b == read(bytes, p1, 8)
                  IN  IF Len(data_len_b) < 8 THEN [ok |-> FALSE, files |-> written]
                      ELSE LET data == read(bytes, p1 + 8, unpack_le(data_len_b))
                           IN  IF name = <<>> THEN [ok |-> FALSE, files |-> written]
                               ELSE unpack_entries(bytes, p1 + 8 + Len(data), left - 1,
                                        Append(written, [name |-> name, data |-> data]))

\* unpack_container reading one entry fewer than the header announces.
unpack_container_short(bytes) ==
    IF Len(read(bytes, 0, 4)) < 4 THEN [ok |-> FALSE, files |-> <<>>]
    ELSE unpack_entries(bytes, 4, Max(0, unpack_le(read(bytes, 0, 4)) - 1), <<>>)

unpack_container(bytes) ==
    IF Len(read(bytes, 0, 4)) < 4 THEN [ok |-> FALSE, files |-> <<>>]
    ELSE unpack_entries(bytes, 4, unpack_le(read(bytes, 0, 4)), <<>>)

(***************************************************************************)
(* Text constants (sequences of code points).                              *)
(***************************************************************************)
\* "gmix"
S_gmix == <<103, 109, 105, 120>>
\* "cmix"
S_cmix == <<99, 109, 105, 120>>
\* "bsc"
S_bsc == <<98, 115, 99>>
\* "lstm"
S_lstm == <<108, 115, 116, 109>>
\* "paq8px"
S_paq8px == <<112, 97, 113, 56, 112, 120>>
\* "bsc-m03"
S_bsc_m03 == <<98, 115, 99, 45, 109, 48, 51>>

(***************************************************************************)
(* Configuration of the search scripts.                                    *)
(***************************************************************************)
\* -3.0 percent, in hundredths of a percent
THRESHOLD_PCT == -300
\* The iteration ceiling (300 and 500 in the scripts), scaled down.
MAX_ITERS == 2
TIMEOUT_BASE_SEC == 14400
ADAPTIVE_SAFETY_MARGIN == 600
RETRY_MAX == 6

\* The three search scripts; the value is the "algorithm" each writes into
\* its manifest.
Variants == {"gmix", "paq8px", "bsc"}
manifest_algorithm(v) ==
    IF v = "gmix" THEN S_gmix ELSE IF v = "paq8px" THEN S_paq8px ELSE S_bsc_m03

\* INPUT_FILE of the search runs: its bytes and its base name ("a").
SrcData == <<7, 9>>
SrcBase == <<97>>

(***************************************************************************)
(* pct_reduction, in hundredths of a percent (rounded down).               *)
(***************************************************************************)
pct_reduction(orig, comp) ==
    IF orig = 0 \/ IsNone(comp) \/ Val(comp) = 0 \/ orig <= 0 THEN 0
    ELSE ((orig - Val(comp)) * 10000) \div orig

(***************************************************************************)
(* est_timeout_adaptativo.  last_bps is None or the fraction num/den       *)
(* (den > 0); last_bps * 0.30 <= 1 iff 3 * num <= 10 * den.                *)
(***************************************************************************)
\* est_timeout_adaptativo dividing by last_bps * 0.30 itself, however small.
est_timeout_no_clamp(container_bytes, last_bps) ==
    IF ~IsNone(last_bps) /\ Val(last_bps).num > 0
    THEN LET b == Val(last_bps)
             estimado == ((container_bytes * 10 * b.den) \div (3 * b.num))
                         + ADAPTIVE_SAFETY_MARGIN
         IN  Max(TIMEOUT_BASE_SEC, estimado)
    ELSE TIMEOUT_BASE_SEC + ADAPTIVE_SAFETY_MARGIN

\* est_timeout_adaptativo without the floor on the adaptive branch.
est_timeout_no_floor(container_bytes, last_bps) ==
    IF ~IsNone(last_bps) /\ Val(last_bps).num > 0
    THEN LET b == Val(last_bps)
         IN  (IF 3 * b.num <= 10 * b.den
              THEN container_bytes
              ELSE (container_bytes * 10 * b.den) \div (3 * b.num))
             + ADAPTIVE_SAFETY_MARGIN
    ELSE TIMEOUT_BASE_SEC + ADAPTIVE_SAFETY_MARGIN

est_timeout_adaptativo(container_bytes, last_bps) ==
    IF ~IsNone(last_bps) /\ Val(last_bps).num > 0
    THEN LET b == Val(last_bps)
             estimado == (IF 3 * b.num <= 10 * b.den
                          THEN container_bytes
                          ELSE (container_bytes * 10 * b.den) \div (3 * b.num))
                         + ADAPTIVE_SAFETY_MARGIN
         IN  Max(TIMEOUT_BASE_SEC, estimado)
    ELSE TIMEOUT_BASE_SEC + ADAPTIVE_SAFETY_MARGIN

(***************************************************************************)
(* The files of one iteration, below WORKDIR:                              *)
(*   iter_{it:03d}/container_{it:03d}.bin and the same name with the       *)
(*   tool's suffix.                                                        *)
(***************************************************************************)
\* "iter_", "/", "container_", ".bin", "."
ITER_PREFIX == <<105, 116, 101, 114, 95>>
SEP == <<47>>
CONTAINER_PREFIX == <<99, 111, 110, 116, 97, 105, 110, 101, 114, 95>>
BIN_SUFFIX == <<46, 98, 105, 110>>
DOT == <<46>>

\* iter_dir = WORKDIR / f"iter_{it:03d}"
iter_dir(i) == ITER_PREFIX \o format_03d(i)

\* One container file for the whole run: WORKDIR / "container_.bin".
container_path_shared(i) == CONTAINER_PREFIX \o BIN_SUFFIX

\* container_path = iter_dir / f"container_{it:03d}.bin"
container_path(i) == iter_dir(i) \o SEP \o CONTAINER_PREFIX \o format_03d(i) \o BIN_SUFFIX

\* gmix_out, paq_out, bsc_out = iter_dir / f"container_{it:03d}.<suffix>"
output_suffix(v) ==
    IF v = "gmix" THEN S_gmix ELSE IF v = "paq8px" THEN S_paq8px ELSE S_bsc
output_path(v, i) ==
    iter_dir(i) \o SEP \o CONTAINER_PREFIX \o format_03d(i) \o DOT \o output_suffix(v)

\* The file system as the run leaves it: a set of [path, kind, writer],
\* writer the iteration that wrote the file last.
fs_write(files, path, kind, i) ==
    {e \in files : e.path # path} \cup {[path |-> path, kind |-> kind, writer |-> i]}
fs_remove(files, path) == {e \in files : e.path # path}

\* What an invocation does to the file at the output path before the tool
\* runs: paq8px_compress removes it, the others leave it.
fs_before_run(v, files, i) ==
    IF v = "paq8px" THEN fs_remove(files, output_path(v, i)) ELSE files

(***************************************************************************)
(* State of one search run.                                                *)
(***************************************************************************)
VARIABLES
    variant,          \* which of the three scripts runs
    pc,               \* "init", "loop", "attempt", "finalize", "done", "fatal"
    input_exists,     \* whether INPUT_FILE exists
    workdir,          \* ensure_dirs() and write_csv_header() have run
    it,               \* the for-loop variable (0 before the first iteration)
    copies,
    cont_bytes,
    timeout_s,
    attempt,
    stop_due_timeout,
    best,             \* None or [iter, copies, meta]
    last_bps,         \* None or [num, den]
    csv,              \* rows appended to CSV_LOG
    containers,       \* iterations whose container file exists
    outputs,          \* iterations whose compressed output file exists
    final,            \* None or what finalization put into FINALDIR
    err,              \* None or the exception that ended the run
    \* history of the current iteration
    est0,             \* the estimator's value at the start of the iteration
    calls,            \* adapter invocations made in this iteration
    last_call,        \* [attempt, timeout, outcome, wrote, alongside] of the latest
                      \* invocation: wrote tells whether it wrote (any of) its
                      \* output file, alongside whether a helper of an earlier
                      \* attempt was running when it started; before the first
                      \* invocation of an iteration, timeout is the budget the
                      \* iteration before ended with
    packed,           \* every copy count ever packed, in order
    last_ok,          \* None or [iter, original, time_s, bps_before] of the latest zero-exit invocation that left an output
    orphan,           \* a helper process spawned by a timed-out invocation of this iteration is still running
    fs,               \* the files below WORKDIR: [path, kind, writer]
    adapter_ret,      \* None or what the latest zero-exit adapter call of this iteration saw and gave back: [log, out_exists, out_size (the size read where the log gave none), elapsed, meta]
    tool_text         \* the text the tool printed before a non-zero exit

search_vars == <<variant, pc, input_exists, workdir, it, copies, cont_bytes,
                 timeout_s, attempt, stop_due_timeout, best, last_bps, csv,
                 containers, outputs, final, err, est0, calls, last_call, packed,
                 last_ok, orphan,
                 fs,
                 adapter_ret,
                 tool_text>>

\* State of one restore run.
VARIABLES
    r_pc,          \* "setup", "init", "stage1", "stage2", "unpack", "report",
                   \* "done", "fatal"
    r_fixture,     \* what INPUT_FINAL decompresses to
    r_present,     \* whether INPUT_FINAL exists
    r_name,        \* the file name of INPUT_FINAL
    r_manifest,    \* the manifest.json beside INPUT_FINAL
    r_artifact,    \* None or the content of INPUT_FINAL
    r_dirs,        \* ensure_dirs() has run
    r_algo,        \* None or the detected algorithm
    r_timeout,     \* timeout_alg
    r_raw,         \* None or the content of stage1_raw/container.bin
    r_sniff,       \* None or the result of is_container
    r_extracted,   \* the paths unpack_container returned or had collected
    r_dir,         \* stage2_extracted: the set of its files [name, data]
    r_inventory,   \* None or the rows of restore_log.csv
    r_report,      \* None or restore_manifest.json
    r_err          \* None or the exception that ended the run

restore_vars == <<r_pc, r_fixture, r_present, r_name, r_manifest, r_artifact,
                  r_dirs, r_algo, r_timeout, r_raw, r_sniff, r_extracted, r_dir,
                  r_inventory, r_report, r_err>>

\* The two latest calls of the estimator on arbitrary arguments.
VARIABLES
    e_prev,   \* the call before the latest: [size, bps, timeout]
    e_last    \* the latest call

est_vars == <<e_prev, e_last>>

\* State of one run of the measuring script.
VARIABLES
    m_pc,        \* "init", "pack", "compress", "sampling", "fallback",
                 \* "pidstat", "finish", "done", "fatal"
    m_env,       \* what the machine offers: [input, psutil, cg_root, cg_mkdir,
                 \* attach, cpu_stat, pidstat]
    m_dirs,      \* ensure_dirs() and csv_init() have run
    m_rows,      \* the rows appended to CSV_PATH: [phase, note]
    m_container, \* None or the size of the packed container
    m_out,       \* the compressor's output file exists
    m_launched,  \* compressor processes started so far
    m_running,   \* compressor processes started and neither exited nor reaped
    m_final,     \* the final artifacts were copied to OUTDIR
    m_summary,   \* None or the content of summary.json
    m_err        \* None or the exception that ended the run

measure_vars == <<m_pc, m_env, m_dirs, m_rows, m_container, m_out, m_launched,
                  m_running, m_final, m_summary, m_err>>

vars == <<search_vars, restore_vars, est_vars, measure_vars>>

SearchInit ==
    /\ variant \in Variants
    /\ input_exists \in BOOLEAN
    /\ pc = "init"
    /\ workdir = FALSE
    /\ it = 0
    /\ copies = 0
    /\ cont_bytes = 0
    /\ timeout_s = 0
    /\ attempt = 0
    /\ stop_due_timeout = FALSE
    /\ best = None
    /\ last_bps = None
    /\ csv = <<>>
    /\ containers = {}
    /\ outputs = {}
    /\ final = None
    /\ err = None
    /\ est0 = 0
    /\ calls = 0
    /\ last_call = [attempt |-> 0, timeout |-> 0, outcome |-> "none", wrote |-> FALSE,
                    alongside |-> FALSE]
    /\ packed = <<>>
    /\ last_ok = None
    /\ orphan = FALSE
    /\ fs = {}
    /\ adapter_ret = None
    /\ tool_text = ""

\* main, up to the loop: ensure_dirs, write_csv_header, the input check.
SearchStart ==
    /\ pc = "init"
    /\ workdir' = TRUE
    /\ IF input_exists
       THEN pc' = "loop" /\ err' = err
       ELSE pc' = "fatal"
            /\ err' = Some([kind |-> "FileNotFoundError", detail |-> "input"])
    /\ UNCHANGED <<variant, input_exists, it, copies, cont_bytes, timeout_s,
                   attempt, stop_due_timeout, best, last_bps, csv, containers,
                   outputs, final, est0, calls, last_call, packed, tool_text>>
    /\ UNCHANGED last_ok
    /\ UNCHANGED orphan
    /\ UNCHANGED fs
    /\ UNCHANGED adapter_ret
    /\ UNCHANGED <<restore_vars, est_vars, measure_vars>>

\* The copy count running one ahead of the loop variable.
copies_ahead(i) == i + 1

\* copies = it
copies_of(i) == i

\* The head of one iteration: pack the container, estimate the timeout.
\* range(1, MAX_ITERS + 2): one iteration more.
in_range_one_more(i) == i >= 1 /\ i <= MAX_ITERS + 1

\* for it in range(1, MAX_ITERS+1)
in_range(i) == i >= 1 /\ i < MAX_ITERS + 1

\* The budget of the iteration before carried over when it is the larger.
timeout_carried(prev, cb, bps) == Max(prev, est_timeout_adaptativo(cb, bps))

\* timeout_s = est_timeout_adaptativo(cont_bytes, last_bps): the value
\* timeout_s held (prev) is overwritten.
timeout_at_start(prev, cb, bps) == est_timeout_adaptativo(cb, bps)

IterBegin ==
    /\ pc = "loop"
    /\ in_range(it + 1)
    /\ it' = it + 1
    /\ copies' = copies_of(it + 1)
    /\ containers' = containers \cup {it + 1}
    /\ packed' = Append(packed, copies')
    /\ cont_bytes' = Len(pack_container(SrcData, copies', SrcBase))
    /\ timeout_s' = timeout_at_start(timeout_s, cont_bytes', last_bps)
    /\ est0' = timeout_s'
    /\ attempt' = 1
    /\ calls' = 0
    /\ last_call' = [attempt |-> 0, timeout |-> timeout_s, outcome |-> "none",
                    wrote |-> FALSE, alongside |-> FALSE]
    /\ stop_due_timeout' = FALSE
    /\ pc' = "attempt"
    /\ UNCHANGED <<variant, input_exists, workdir, best, last_bps, csv, outputs,
                   final, err, tool_text>>
    /\ UNCHANGED last_ok
    /\ orphan' = FALSE
    /\ fs' = fs_write(fs, container_path(it + 1), "container", it + 1)
    /\ adapter_ret' = None
    /\ UNCHANGED <<restore_vars, est_vars, measure_vars>>

\* range(1, MAX_ITERS + 1) is exhausted.
LoopEnd ==
    /\ pc = "loop"
    /\ ~in_range(it + 1)
    /\ pc' = "finalize"
    /\ UNCHANGED <<variant, input_exists, workdir, it, copies, cont_bytes,
                   timeout_s, attempt, stop_due_timeout, best, last_bps, csv,
                   containers, outputs, final, err, est0, calls, last_call, packed,
                   tool_text>>
    /\ UNCHANGED last_ok
    /\ UNCHANGED orphan
    /\ UNCHANGED fs
    /\ UNCHANGED adapter_ret
    /\ UNCHANGED <<restore_vars, est_vars, measure_vars>>

\* What an invocation does to the output file before the tool runs:
\* paq8px_compress removes an existing output, the others leave it.
outputs_before_run(v, outs, i) == IF v = "paq8px" THEN outs \ {i} ELSE outs

\* except subprocess.TimeoutExpired.  The killed tool may have left a
\* partial output file (partial).  subprocess.run(timeout=...) kills the
\* process it started and no other: a helper that process had spawned
\* (helper) goes on running, with the output path it was given.  Helpers of
\* earlier iterations hold other paths and are not followed.
\* Variants of the three tests below: one more attempt before giving up;
\* giving up is always fatal; the timeout grows by a constant.
on_timeout_exhausted_late(att) == att > RETRY_MAX
exhausted_never_fatal(b) == FALSE
exhausted_always_fatal(b) == TRUE
backoff_linear(t) == t + TIMEOUT_BASE_SEC

\* if attempt >= RETRY_MAX
on_timeout_exhausted(att) == att >= RETRY_MAX

\* if best is None: raise
exhausted_is_fatal(b) == IsNone(b)

\* timeout_s *= 2
backoff(t) == t * 2

AdapterTimeout(partial, helper) ==
    /\ pc = "attempt"
    /\ calls' = calls + 1
    /\ last_call' = [attempt |-> attempt, timeout |-> timeout_s,
                     outcome |-> "timeout", wrote |-> partial,
                     alongside |-> orphan]
    /\ outputs' = IF partial THEN outputs \cup {it}
                  ELSE outputs_before_run(variant, outputs, it)
    /\ IF on_timeout_exhausted(attempt)
       THEN /\ UNCHANGED <<attempt, timeout_s>>
            /\ IF exhausted_is_fatal(best)
               THEN /\ pc' = "fatal"
                    /\ err' = Some([kind |-> "TimeoutExpired", detail |-> "timeout"])
                    /\ UNCHANGED stop_due_timeout
               ELSE /\ stop_due_timeout' = TRUE
                    /\ pc' = "finalize"
                    /\ UNCHANGED err
       ELSE /\ attempt' = attempt + 1
            /\ timeout_s' = backoff(timeout_s)
            /\ UNCHANGED <<pc, err, stop_due_timeout>>
    /\ UNCHANGED <<variant, input_exists, workdir, it, copies, cont_bytes, best,
                   last_bps, csv, containers, final, est0, packed, tool_text>>
    /\ UNCHANGED last_ok
    /\ orphan' = (orphan \/ helper)
    /\ fs' = IF partial THEN fs_write(fs, output_path(variant, it), "output", it)
             ELSE fs_before_run(variant, fs, it)
    /\ UNCHANGED adapter_ret
    /\ UNCHANGED <<restore_vars, est_vars, measure_vars>>

\* The tool exits with a non-zero status: RuntimeError carrying the tool's
\* captured output (text); main does not catch it.  Whatever the failed tool
\* left of its output file is never read again.
ToolTexts == {"stderr_a", "stderr_b"}

\* hard_failure without the tool's text.
hard_failure_no_text(text) == [kind |-> "RuntimeError", detail |-> "failed"]

hard_failure(text) == [kind |-> "RuntimeError", detail |-> text]

AdapterFail(text) ==
    /\ pc = "attempt"
    /\ calls' = calls + 1
    /\ last_call' = [attempt |-> attempt, timeout |-> timeout_s,
                     outcome |-> "fail", wrote |-> FALSE,
                     alongside |-> orphan]
    /\ outputs' = outputs_before_run(variant, outputs, it)
    /\ tool_text' = text
    /\ pc' = "fatal"
    /\ err' = Some(hard_failure(text))
    /\ UNCHANGED <<variant, input_exists, workdir, it, copies, cont_bytes,
                   timeout_s, attempt, stop_due_timeout, best, last_bps, csv,
                   containers, final, est0, packed>>
    /\ UNCHANGED last_ok
    /\ UNCHANGED orphan
    /\ fs' = fs_before_run(variant, fs, it)
    /\ UNCHANGED adapter_ret
    /\ UNCHANGED <<restore_vars, est_vars, measure_vars>>

(***************************************************************************)
(* A successful invocation (exit status zero).  The environment decides    *)
(* whether the tool wrote its output file (wrote) and how large (fsize),   *)
(* what the result parser finds in the tool's text (log: each field None   *)
(* or a value) and the wall-clock time measured (elapsed).                 *)
(***************************************************************************)
CompSizes(cb) == {0, cb \div 2, 2 * cb}
ParsedOriginals(cb) == {0, cb}
ParsedTimes == {0}
Elapsed == {2}

NoLog == [original |-> None, compressed |-> None, time_s |-> None]

\* parse_gmix_output: one pattern yields the three values together.
\* parse_paq8px_output: one pattern for the sizes, another for the time.
\* bsc_compress parses nothing.
Logs(v, cb) ==
    IF v = "bsc" THEN {NoLog}
    ELSE IF v = "gmix"
    THEN {NoLog} \cup
         {[original |-> Some(o), compressed |-> Some(c), time_s |-> Some(t)] :
            o \in ParsedOriginals(cb), c \in CompSizes(cb), t \in ParsedTimes}
    ELSE {[original |-> o, compressed |-> c, time_s |-> t] :
            o \in {None} \cup {Some(a) : a \in ParsedOriginals(cb)},
            c \in {None} \cup {Some(a) : a \in CompSizes(cb)},
            t \in {None} \cup {Some(a) : a \in ParsedTimes}}
         \ {l \in [original : {None} \cup {Some(a) : a \in ParsedOriginals(cb)},
                   compressed : {None} \cup {Some(a) : a \in CompSizes(cb)},
                   time_s : {None} \cup {Some(a) : a \in ParsedTimes}] :
                IsNone(l.original) # IsNone(l.compressed)}

\* adapter_meta taking the output's size where the input's belongs.
adapter_meta_swapped(log, inp_size, out_exists, fsize, elapsed) ==
    [original   |-> IF IsNone(log.original) THEN fsize ELSE Val(log.original),
     compressed |-> IF IsNone(log.compressed)
                    THEN (IF out_exists THEN Some(fsize) ELSE None)
                    ELSE log.compressed,
     time_s     |-> IF IsNone(log.time_s) THEN elapsed ELSE Val(log.time_s)]

\* gmix_compress / paq8px_compress / bsc_compress after a zero exit status:
\* the parsed fields, each with its fallback.
adapter_meta(log, inp_size, out_exists, fsize, elapsed) ==
    [original   |-> IF IsNone(log.original) THEN inp_size ELSE Val(log.original),
     compressed |-> IF IsNone(log.compressed)
                    THEN (IF out_exists THEN Some(fsize) ELSE None)
                    ELSE log.compressed,
     time_s     |-> IF IsNone(log.time_s) THEN elapsed ELSE Val(log.time_s)]

\* accepts with the threshold of the loop's comment (2 percent).
accepts_two_percent(red) == red >= 200

\* if red >= THRESHOLD_PCT: best = {...} else: break
accepts(red) == red >= THRESHOLD_PCT

\* next_bps that keeps the first throughput ever measured.
next_bps_keep_first(meta, bps) ==
    IF IsNone(bps) /\ meta.time_s # 0 /\ meta.time_s > 0 /\ meta.original # 0
    THEN Some([num |-> meta.original, den |-> meta.time_s])
    ELSE bps

\* last_bps = meta['original'] / meta['time_s'], when both are usable.
next_bps(meta, bps) ==
    IF meta.time_s # 0 /\ meta.time_s > 0 /\ meta.original # 0
    THEN Some([num |-> meta.original, den |-> meta.time_s])
    ELSE bps

\* append_csv opening the log for writing: the new row replaces the file.
append_csv_truncating(rows, row) == <<row>>

\* append_csv: csv_path.open('a') and one writerow
append_csv(rows, row) == Append(rows, row)

csv_row(i, n, cb, meta, red) ==
    [iter |-> i, copies |-> n, container_bytes |-> cb,
     compressed |-> meta.compressed, reduction_pct |-> red, time_s |-> meta.time_s]

\* The best record kept only while no later iteration reduces more.
next_best_highest(b, i, n, meta) ==
    IF /\ ~IsNone(b)
       /\ pct_reduction(Val(b).meta.original, Val(b).meta.compressed)
             > pct_reduction(meta.original, meta.compressed)
    THEN b
    ELSE Some([iter |-> i, copies |-> n, meta |-> meta])

\* best = {"iter": it, "copies": copies, ..., "meta": meta}: an accepted
\* iteration replaces the record, whatever the record held.
next_best(b, i, n, meta) == Some([iter |-> i, copies |-> n, meta |-> meta])

AdapterSuccess(wrote, fsize, log, elapsed) ==
    /\ pc = "attempt"
    /\ calls' = calls + 1
    /\ last_call' = [attempt |-> attempt, timeout |-> timeout_s,
                     outcome |-> "ok", wrote |-> wrote,
                     alongside |-> orphan]
    /\ outputs' = IF wrote THEN outputs \cup {it}
                  ELSE outputs_before_run(variant, outputs, it)
    /\ LET out_exists == it \in outputs'
           meta == adapter_meta(log, cont_bytes, out_exists, fsize, elapsed)
           red == pct_reduction(meta.original, meta.compressed)
       IN  IF ~out_exists
           THEN /\ pc' = "fatal"
                /\ err' = Some([kind |-> "RuntimeError", detail |-> "missing_output"])
                /\ UNCHANGED <<csv, last_bps, best>>
           ELSE /\ csv' = append_csv(csv, csv_row(it, copies, cont_bytes, meta, red))
                /\ last_bps' = next_bps(meta, last_bps)
                /\ UNCHANGED err
                /\ IF accepts(red)
                   THEN /\ best' = next_best(best, it, copies, meta)
                        /\ pc' = "loop"
                   ELSE /\ pc' = "finalize"
                        /\ UNCHANGED best
    /\ UNCHANGED <<variant, input_exists, workdir, it, copies, cont_bytes,
                   timeout_s, attempt, stop_due_timeout, containers, final, est0,
                   packed, tool_text>>
    /\ last_ok' = IF it \in outputs'
                  THEN Some([iter |-> it,
                             original |-> IF IsNone(log.original) THEN cont_bytes
                                          ELSE Val(log.original),
                             time_s |-> IF IsNone(log.time_s) THEN elapsed
                                        ELSE Val(log.time_s),
                             bps_before |-> last_bps])
                  ELSE last_ok
    /\ UNCHANGED orphan
    /\ fs' = IF wrote THEN fs_write(fs, output_path(variant, it), "output", it)
             ELSE fs_before_run(variant, fs, it)
    /\ adapter_ret' = Some([log |-> log,
                           out_exists |-> it \in outputs',
                           out_size |-> IF IsNone(log.compressed) /\ it \in outputs'
                                        THEN Some(fsize) ELSE None,
                           elapsed |-> elapsed,
                           meta |-> adapter_meta(log, cont_bytes, it \in outputs',
                                                 fsize, elapsed)])
    /\ UNCHANGED <<restore_vars, est_vars, measure_vars>>

(***************************************************************************)
(* After the loop: with no best, the first iteration's two files are       *)
(* copied and no manifest is written; otherwise the best iteration's       *)
(* files are copied and manifest.json is written.                          *)
(***************************************************************************)
\* The names counted from zero: f"copy_{i:04d}_" for i in range(copies).
inner_files_from_zero(n, base) == [i \in 1..n |-> entry_name(i - 1, base)]

\* [f"copy_{i+1:04d}_" + Path(INPUT_FILE).name for i in range(best['copies'])]
inner_files(n, base) == [i \in 1..n |-> entry_name(i, base)]

\* finalization copying the first iteration's files in both branches.
finalization_first_files(v, b) ==
    IF IsNone(b)
    THEN [container |-> 1, output |-> 1, manifest |-> None]
    ELSE LET r == Val(b)
         IN  [container |-> 1,
              output    |-> 1,
              manifest  |-> Some(
                 [algorithm     |-> manifest_algorithm(v),
                  threshold_pct |-> THRESHOLD_PCT,
                  max_iters     |-> MAX_ITERS,
                  best          |-> [iter |-> r.iter,
                                     copies |-> r.copies,
                                     original_bytes |-> r.meta.original,
                                     compressed_bytes |-> r.meta.compressed,
                                     reduction_pct |->
                                        pct_reduction(r.meta.original, r.meta.compressed),
                                     time_s |-> r.meta.time_s],
                  inner_files   |-> inner_files(r.copies, SrcBase)])]

\* The manifest written for the copy count the loop had reached, one past
\* the best.
finalization_copies_reached(v, b) ==
    IF IsNone(b)
    THEN [container |-> 1, output |-> 1, manifest |-> None]
    ELSE LET r == Val(b)
         IN  [container |-> r.iter,
              output    |-> r.iter,
              manifest  |-> Some(
                 [algorithm     |-> manifest_algorithm(v),
                  threshold_pct |-> THRESHOLD_PCT,
                  max_iters     |-> MAX_ITERS,
                  best          |-> [iter |-> r.iter + 1,
                                     copies |-> r.copies + 1,
                                     original_bytes |-> r.meta.original,
                                     compressed_bytes |-> r.meta.compressed,
                                     reduction_pct |->
                                        pct_reduction(r.meta.original, r.meta.compressed),
                                     time_s |-> r.meta.time_s],
                  inner_files   |-> inner_files(r.copies + 1, SrcBase)])]

finalization(v, b) ==
    IF IsNone(b)
    THEN [container |-> 1, output |-> 1, manifest |-> None]
    ELSE LET r == Val(b)
         IN  [container |-> r.iter,
              output    |-> r.iter,
              manifest  |-> Some(
                 [algorithm     |-> manifest_algorithm(v),
                  threshold_pct |-> THRESHOLD_PCT,
                  max_iters     |-> MAX_ITERS,
                  best          |-> [iter |-> r.iter,
                                     copies |-> r.copies,
                                     original_bytes |-> r.meta.original,
                                     compressed_bytes |-> r.meta.compressed,
                                     reduction_pct |->
                                        pct_reduction(r.meta.original, r.meta.compressed),
                                     time_s |-> r.meta.time_s],
                  inner_files   |-> inner_files(r.copies, SrcBase)])]

Finalize ==
    /\ pc = "finalize"
    /\ final' = Some(finalization(variant, best))
    /\ pc' = "done"
    /\ UNCHANGED <<variant, input_exists, workdir, it, copies, cont_bytes,
                   timeout_s, attempt, stop_due_timeout, best, last_bps, csv,
                   containers, outputs, err, est0, calls, last_call, packed,
                   tool_text>>
    /\ UNCHANGED last_ok
    /\ UNCHANGED orphan
    /\ UNCHANGED fs
    /\ UNCHANGED adapter_ret
    /\ UNCHANGED <<restore_vars, est_vars, measure_vars>>

SearchNext ==
    \/ SearchStart
    \/ IterBegin
    \/ LoopEnd
    \/ \E partial \in BOOLEAN, helper \in BOOLEAN : AdapterTimeout(partial, helper)
    \/ \E text \in ToolTexts : AdapterFail(text)
    \/ \E wrote \in BOOLEAN, fsize \in CompSizes(cont_bytes),
          log \in Logs(variant, cont_bytes), elapsed \in Elapsed :
            AdapterSuccess(wrote, fsize, log, elapsed)
    \/ Finalize

(***************************************************************************)
(*                        Algorithm detector                               *)
(***************************************************************************)
\* str.lower() and str.strip() on the ASCII range.
lower_char(c) == IF c >= 65 /\ c <= 90 THEN c + 32 ELSE c
lower(s) == [i \in 1..Len(s) |-> lower_char(s[i])]

IsSpace(c) == (c >= 9 /\ c <= 13) \/ (c >= 28 /\ c <= 32)

RECURSIVE lstrip(_)
lstrip(s) == IF s # <<>> /\ IsSpace(s[1]) THEN lstrip(Tail(s)) ELSE s

RECURSIVE rstrip(_)
rstrip(s) ==
    IF s # <<>> /\ IsSpace(s[Len(s)]) THEN rstrip(SubSeq(s, 1, Len(s) - 1)) ELSE s

strip(s) == rstrip(lstrip(s))

endswith(s, k) == Len(s) >= Len(k) /\ SubSeq(s, Len(s) - Len(k) + 1, Len(s)) = k

\* SUPPORTED_ALGOS = list(DECOMPRESS_CMDS.keys())
SUPPORTED_ALGOS == <<S_cmix, S_gmix, S_bsc, S_lstm, S_paq8px>>
Supported(a) == \E i \in 1..Len(SUPPORTED_ALGOS) : SUPPORTED_ALGOS[i] = a

\* EXT_MAP, in the order sorted(EXT_MAP.keys(), key=len, reverse=True)
\* visits it (the sort is stable): .paq8px, .cmix, .gmix, .lstm, .paq8,
\* .bsc, .paq
EXT_MAP ==
    << [ext |-> <<46, 99, 109, 105, 120>>,          algo |-> S_cmix],
       [ext |-> <<46, 103, 109, 105, 120>>,         algo |-> S_gmix],
       [ext |-> <<46, 98, 115, 99>>,                algo |-> S_bsc],
       [ext |-> <<46, 108, 115, 116, 109>>,         algo |-> S_lstm],
       [ext |-> <<46, 112, 97, 113, 56>>,           algo |-> S_paq8px],
       [ext |-> <<46, 112, 97, 113, 56, 112, 120>>, algo |-> S_paq8px],
       [ext |-> <<46, 112, 97, 113>>,               algo |-> S_paq8px] >>

\* sorted(..., key=len, reverse=True): e goes behind every entry at least
\* as long as it is.
RECURSIVE insert_by_len(_, _)
insert_by_len(sorted, e) ==
    IF sorted = <<>> THEN <<e>>
    ELSE IF Len(sorted[1].ext) >= Len(e.ext)
         THEN <<sorted[1]>> \o insert_by_len(Tail(sorted), e)
         ELSE <<e>> \o sorted

RECURSIVE sorted_by_len(_, _)
sorted_by_len(entries, sorted) ==
    IF entries = <<>> THEN sorted
    ELSE sorted_by_len(Tail(entries), insert_by_len(sorted, entries[1]))

EXT_BY_LENGTH == sorted_by_len(EXT_MAP, <<>>)

RECURSIVE first_ext(_, _)
first_ext(name, i) ==
    IF i > Len(EXT_BY_LENGTH) THEN None
    ELSE IF endswith(lower(name), EXT_BY_LENGTH[i].ext) THEN Some(EXT_BY_LENGTH[i].algo)
    ELSE first_ext(name, i + 1)

\* detect_algo_from_ext: the path's directories hold no suffix of EXT_MAP
\* across a separator, so the test reads the file name alone.
detect_algo_from_ext(name) == first_ext(name, 1)

\* \w of the regular expressions, on the ASCII range.
IsWord(c) == (c >= 48 /\ c <= 57) \/ (c >= 65 /\ c <= 90) \/ (c >= 97 /\ c <= 122) \/ c = 95

\* rx.search(s) for a literal token, case-insensitive; bounded asks for \b
\* on both sides of the token.
token_at(s, tok, p) ==
    /\ p + Len(tok) - 1 <= Len(s)
    /\ lower(SubSeq(s, p, p + Len(tok) - 1)) = tok

search_token(s, tok, bounded) ==
    \E p \in 1..Len(s) :
        /\ token_at(s, tok, p)
        /\ bounded => /\ (p = 1 \/ ~IsWord(s[p - 1]))
                      /\ (p + Len(tok) - 1 = Len(s) \/ ~IsWord(s[p + Len(tok)]))

\* NAME_TO_ALGO, in list order; "paq8px|paq8|paq" matches wherever "paq" does.
NAME_TO_ALGO ==
    << [tok |-> S_cmix, bounded |-> TRUE,  algo |-> S_cmix],
       [tok |-> S_gmix, bounded |-> TRUE,  algo |-> S_gmix],
       [tok |-> S_bsc,  bounded |-> TRUE,  algo |-> S_bsc],
       [tok |-> S_lstm, bounded |-> FALSE, algo |-> S_lstm],
       [tok |-> <<112, 97, 113>>, bounded |-> FALSE, algo |-> S_paq8px] >>

RECURSIVE first_name(_, _)
first_name(name, i) ==
    IF i > Len(NAME_TO_ALGO) THEN None
    ELSE IF search_token(name, NAME_TO_ALGO[i].tok, NAME_TO_ALGO[i].bounded)
         THEN Some(NAME_TO_ALGO[i].algo)
    ELSE first_name(name, i + 1)

detect_algo_from_name(name) == first_name(name, 1)

guess_algo(name) == first_name(name, 1)

\* The sibling manifest.json: None when absent, else
\* [readable, algorithm]: readable is FALSE when reading or parsing it, or
\* reading its "algorithm" as text, raises; algorithm is None when the key
\* is missing or its value is null or empty.
load_manifest_algo_if_any(manifest) ==
    IF IsNone(manifest) THEN None
    ELSE IF ~Val(manifest).readable THEN None
    ELSE LET alg == lower(strip(IF IsNone(Val(manifest).algorithm) THEN <<>>
                                ELSE Val(Val(manifest).algorithm)))
         IN  IF Supported(alg) THEN Some(alg) ELSE None

\* The keys of EXT_MAP in the order the dictionary lists them: .cmix, .gmix,
\* .bsc, .lstm, .paq8, .paq8px, .paq
EXT_MAP_KEYS == [i \in 1..Len(EXT_MAP) |-> EXT_MAP[i].ext]

\* The RuntimeError decide_algo raises: its text quotes input_final.name and
\* joins the keys of EXT_MAP.
unresolved_algorithm(name) ==
    [kind |-> "RuntimeError", detail |-> "unresolved_algorithm",
     file |-> name, suffixes |-> EXT_MAP_KEYS]

\* decide_algo asking the name patterns before the extension.
decide_algo_name_first(name, manifest) ==
    IF ~IsNone(load_manifest_algo_if_any(manifest))
    THEN load_manifest_algo_if_any(manifest)
    ELSE IF ~IsNone(detect_algo_from_name(name)) THEN detect_algo_from_name(name)
    ELSE detect_algo_from_ext(name)

\* decide_algo falling back to bsc when nothing matches.
decide_algo_default_bsc(name, manifest) ==
    IF ~IsNone(load_manifest_algo_if_any(manifest))
    THEN load_manifest_algo_if_any(manifest)
    ELSE IF ~IsNone(detect_algo_from_ext(name)) THEN detect_algo_from_ext(name)
    ELSE IF ~IsNone(detect_algo_from_name(name)) THEN detect_algo_from_name(name)
    ELSE Some(S_bsc)

\* decide_algo asking the extension before the manifest.
decide_algo_ext_first(name, manifest) ==
    IF ~IsNone(detect_algo_from_ext(name)) THEN detect_algo_from_ext(name)
    ELSE IF ~IsNone(load_manifest_algo_if_any(manifest))
    THEN load_manifest_algo_if_any(manifest)
    ELSE detect_algo_from_name(name)

\* decide_algo: manifest, then extension, then name, else RuntimeError
\* (returned here as None).  An empty string is never a supported algorithm,
\* so "if alg" is "alg is not None".
decide_algo(name, manifest) ==
    IF ~IsNone(load_manifest_algo_if_any(manifest))
    THEN load_manifest_algo_if_any(manifest)
    ELSE IF ~IsNone(detect_algo_from_ext(name)) THEN detect_algo_from_ext(name)
    ELSE detect_algo_from_name(name)

(***************************************************************************)
(*                          Restore pipeline                               *)
(***************************************************************************)
RESTORE_TIMEOUT_BASE_SEC == 3600

\* A file's content is written down by how it came about: a container
\* packed from (data, copies, base), or explicit bytes.
PackedFile(data, n, base) ==
    [kind |-> "packed", data |-> data, copies |-> n, base |-> base, bytes |-> <<>>]
BlobFile(bytes) ==
    [kind |-> "blob", data |-> <<>>, copies |-> 0, base |-> <<>>, bytes |-> bytes]
Content(f) ==
    IF f.kind = "packed" THEN pack_container(f.data, f.copies, f.base) ELSE f.bytes

\* Inputs of the restore runs.
Payloads == {<<>>, <<0, 255>>}
\* "a", "e-acute.b"
BaseNames == {<<97>>, <<233, 46, 98>>}

\* A two-entry container cut one byte into its second entry: the header and
\* the first entry are whole.
TruncatedContainer ==
    LET whole == pack_container(<<1, 2>>, 2, <<97>>)
    IN  SubSeq(whole, 1, 4 + Len(pack_entry(1, <<1, 2>>, <<97>>)) + 1)

\* A two-entry container that lacks the last byte of its second entry's
\* data: everything before it is whole.
ShortDataContainer ==
    LET whole == pack_container(<<1, 2>>, 2, <<97>>)
    IN  SubSeq(whole, 1, Len(whole) - 1)

\* One whole entry whose name is one byte longer than is_container allows.
LongNameBlob ==
    <<1, 0, 0, 0, 1, 16>> \o [k \in 1..4097 |-> 97] \o <<0, 0, 0, 0, 0, 0, 0, 0>>

\* Files that are no container: empty; a count of 0; a count of 2^32 - 1;
\* the file ends in the name length, in the name, in the data length; a
\* name length of 0; a data length above the bytes that follow (by one, and
\* by 2^56); a name too long; and the two truncated containers.
Blobs ==
    { <<>>, <<0, 0, 0, 0>>, <<255, 255, 255, 255, 1>>,
      <<1, 0, 0, 0, 5>>,
      <<1, 0, 0, 0, 3, 0, 97>>,
      <<1, 0, 0, 0, 1, 0, 97, 0, 0, 0>>,
      <<1, 0, 0, 0, 0, 0, 0, 0, 0, 0, 0, 0, 0, 0>>,
      <<1, 0, 0, 0, 1, 0, 97, 2, 0, 0, 0, 0, 0, 0, 0, 7>>,
      <<1, 0, 0, 0, 1, 0, 97, 0, 0, 0, 0, 0, 0, 0, 1>>,
      LongNameBlob,
      TruncatedContainer,
      ShortDataContainer }

\* The one fixture above the copy count is_container accepts.
BigFixture == PackedFile(<<>>, SNIFF_MAX_COUNT + 1, <<97>>)

Fixtures ==
    {PackedFile(d, n, b) : d \in Payloads, n \in 1..MaxCopies, b \in BaseNames}
    \cup {BlobFile(b) : b \in Blobs}
    \cup {BigFixture}

\* Names of INPUT_FINAL: "final_container.bsc", "a.paq8px", "A.GMIX",
\* "my-bsc-out.dat", "x_bsc.dat", "data.bin", "lstm_paq.x", "f.paq8",
\* "cmix.gmix"
FINAL_BSC == <<102, 105, 110, 97, 108, 95, 99, 111, 110, 116, 97, 105, 110, 101, 114, 46, 98, 115, 99>>
ArtifactNames ==
    { FINAL_BSC,
      <<97, 46, 112, 97, 113, 56, 112, 120>>,
      <<65, 46, 71, 77, 73, 88>>,
      <<109, 121, 45, 98, 115, 99, 45, 111, 117, 116, 46, 100, 97, 116>>,
      <<120, 95, 98, 115, 99, 46, 100, 97, 116>>,
      <<100, 97, 116, 97, 46, 98, 105, 110>>,
      <<108, 115, 116, 109, 95, 112, 97, 113, 46, 120>>,
      <<102, 46, 112, 97, 113, 56>>,
      <<99, 109, 105, 120, 46, 103, 109, 105, 120>> }

\* Sibling manifests: none; "gmix"; " BSC\n"; "bsc-m03"; "lstm"; no
\* algorithm key; unreadable.
ManifestFile(readable, algorithm) == Some([readable |-> readable, algorithm |-> algorithm])
Manifests ==
    { None,
      ManifestFile(TRUE, Some(S_gmix)),
      ManifestFile(TRUE, Some(<<32, 66, 83, 67, 10>>)),
      ManifestFile(TRUE, Some(S_bsc_m03)),
      ManifestFile(TRUE, Some(S_lstm)),
      ManifestFile(TRUE, None),
      ManifestFile(FALSE, None) }


RestoreBlank ==
    /\ r_pc = "setup"
    /\ r_artifact = None
    /\ r_dirs = FALSE
    /\ r_algo = None
    /\ r_timeout = 0
    /\ r_raw = None
    /\ r_sniff = None
    /\ r_extracted = <<>>
    /\ r_dir = {}
    /\ r_inventory = None
    /\ r_report = None
    /\ r_err = None

RestoreInit ==
    /\ r_fixture \in Fixtures
    /\ r_present \in BOOLEAN
    /\ r_name \in ArtifactNames
    /\ r_manifest \in Manifests
    /\ RestoreBlank

\* The artifact is produced: the container is packed and passed through a
\* compressor that copies its input; INPUT_FINAL then holds the fixture.
Prepare ==
    /\ r_pc = "setup"
    /\ r_artifact' = IF r_present THEN Some(r_fixture) ELSE None
    /\ r_pc' = "init"
    /\ UNCHANGED <<r_fixture, r_present, r_name, r_manifest, r_dirs, r_algo,
                   r_timeout, r_raw, r_sniff, r_extracted, r_dir, r_inventory,
                   r_report, r_err>>
    /\ UNCHANGED <<search_vars, est_vars, measure_vars>>

\* The size taken as seconds, without the division.
timeout_alg_bytes(size) == Max(RESTORE_TIMEOUT_BASE_SEC, size)

\* timeout_alg = max(TIMEOUT_BASE_SEC, int(size / 1000))
timeout_alg(size) == Max(RESTORE_TIMEOUT_BASE_SEC, size \div 1000)

\* main up to the decompressor's launch.
RestoreStart ==
    /\ r_pc = "init"
    /\ r_dirs' = TRUE
    /\ IF IsNone(r_artifact)
       THEN /\ r_pc' = "fatal"
            /\ r_err' = Some([kind |-> "FileNotFoundError", detail |-> "input"])
            /\ UNCHANGED <<r_algo, r_timeout>>
       ELSE IF IsNone(decide_algo(r_name, r_manifest))
       THEN /\ r_pc' = "fatal"
            /\ r_err' = Some(unresolved_algorithm(r_name))
            /\ UNCHANGED <<r_algo, r_timeout>>
       ELSE /\ r_algo' = decide_algo(r_name, r_manifest)
            /\ r_timeout' = timeout_alg(Len(Content(Val(r_artifact))))
            /\ r_pc' = "stage1"
            /\ UNCHANGED r_err
    /\ UNCHANGED <<r_fixture, r_present, r_name, r_manifest, r_artifact, r_raw,
                   r_sniff, r_extracted, r_dir, r_inventory, r_report>>
    /\ UNCHANGED <<search_vars, est_vars, measure_vars>>

\* subprocess.TimeoutExpired leaves run_cmd, decompress_generic and main.
DecompressTimeout ==
    /\ r_pc = "stage1"
    /\ r_pc' = "fatal"
    /\ r_err' = Some([kind |-> "TimeoutExpired", detail |-> "timeout"])
    /\ UNCHANGED <<r_fixture, r_present, r_name, r_manifest, r_artifact, r_dirs,
                   r_algo, r_timeout, r_raw, r_sniff, r_extracted, r_dir,
                   r_inventory, r_report>>
    /\ UNCHANGED <<search_vars, est_vars, measure_vars>>

\* rc != 0
DecompressFail(text) ==
    /\ r_pc = "stage1"
    /\ r_pc' = "fatal"
    /\ r_err' = Some([kind |-> "RuntimeError", detail |-> text])
    /\ UNCHANGED <<r_fixture, r_present, r_name, r_manifest, r_artifact, r_dirs,
                   r_algo, r_timeout, r_raw, r_sniff, r_extracted, r_dir,
                   r_inventory, r_report>>
    /\ UNCHANGED <<search_vars, est_vars, measure_vars>>

\* decompress_generic: the decompressor copies its input to the raw
\* container.
decompress_generic(artifact) == artifact

\* rc = 0.  The decompressor wrote the raw container (wrote) or nothing;
\* raw_container.stat() then raises when the file is missing.
DecompressOk(wrote) ==
    /\ r_pc = "stage1"
    /\ r_raw' = IF wrote THEN Some(decompress_generic(Val(r_artifact))) ELSE r_raw
    /\ IF IsNone(r_raw')
       THEN /\ r_pc' = "fatal"
            /\ r_err' = Some([kind |-> "FileNotFoundError", detail |-> "raw_container"])
       ELSE /\ r_pc' = "stage2"
            /\ UNCHANGED r_err
    /\ UNCHANGED <<r_fixture, r_present, r_name, r_manifest, r_artifact, r_dirs,
                   r_algo, r_timeout, r_sniff, r_extracted, r_dir, r_inventory,
                   r_report>>
    /\ UNCHANGED <<search_vars, est_vars, measure_vars>>

\* if not is_container(raw_container): raise RuntimeError
Stage2Sniff ==
    /\ r_pc = "stage2"
    /\ r_sniff' = Some(is_container(Content(Val(r_raw))))
    /\ IF Val(r_sniff')
       THEN r_pc' = "unpack" /\ UNCHANGED r_err
       ELSE /\ r_pc' = "fatal"
            /\ r_err' = Some([kind |-> "RuntimeError", detail |-> "not_a_container"])
    /\ UNCHANGED <<r_fixture, r_present, r_name, r_manifest, r_artifact, r_dirs,
                   r_algo, r_timeout, r_raw, r_extracted, r_dir, r_inventory,
                   r_report>>
    /\ UNCHANGED <<search_vars, est_vars, measure_vars>>

\* out_path.write_bytes(data), for each file in order: a later file of the
\* same name replaces the earlier one.
RECURSIVE write_files(_, _)
write_files(dir, files) ==
    IF files = <<>> THEN dir
    ELSE write_files({f \in dir : f.name # files[1].name} \cup {files[1]}, Tail(files))

\* extracted = unpack_container(raw_container, OUTDIR / "stage2_extracted")
Stage2Unpack ==
    /\ r_pc = "unpack"
    /\ LET u == unpack_container(Content(Val(r_raw)))
       IN  /\ r_dir' = write_files(r_dir, u.files)
           /\ r_extracted' = [i \in 1..Len(u.files) |-> u.files[i].name]
           /\ IF u.ok
              THEN r_pc' = "report" /\ UNCHANGED r_err
              ELSE /\ r_pc' = "fatal"
                   /\ r_err' = Some([kind |-> "struct.error", detail |-> "short_read"])
    /\ UNCHANGED <<r_fixture, r_present, r_name, r_manifest, r_artifact, r_dirs,
                   r_algo, r_timeout, r_raw, r_sniff, r_inventory, r_report>>
    /\ UNCHANGED <<search_vars, est_vars, measure_vars>>

\* restore_log.csv (one row per returned path) and restore_manifest.json
file_size(dir, name) == Len((CHOOSE f \in dir : f.name = name).data)

inventory(dir, extracted) ==
    [i \in 1..Len(extracted) |->
        [file |-> extracted[i],
         size_bytes |-> file_size(dir, extracted[i]),
         algo_inferido |-> guess_algo(extracted[i])]]

restore_manifest(algo, extracted) ==
    [detected_algorithm |-> algo,
     extracted_count |-> Len(extracted),
     supported_algos_for_reference |-> SUPPORTED_ALGOS]

Report ==
    /\ r_pc = "report"
    /\ r_inventory' = Some(inventory(r_dir, r_extracted))
    /\ r_report' = Some(restore_manifest(Val(r_algo), r_extracted))
    /\ r_pc' = "done"
    /\ UNCHANGED <<r_fixture, r_present, r_name, r_manifest, r_artifact, r_dirs,
                   r_algo, r_timeout, r_raw, r_sniff, r_extracted, r_dir, r_err>>
    /\ UNCHANGED <<search_vars, est_vars, measure_vars>>

RestoreNext ==
    \/ Prepare
    \/ RestoreStart
    \/ DecompressTimeout
    \/ \E text \in ToolTexts : DecompressFail(text)
    \/ \E wrote \in BOOLEAN : DecompressOk(wrote)
    \/ Stage2Sniff
    \/ Stage2Unpack
    \/ Report

(***************************************************************************)
(*        Calls of the timeout estimator on arbitrary arguments            *)
(***************************************************************************)
EstSizes == {0, 1, 13799, 13800, 13801, 100000, 2000000}
\* None, 0, -1, 1, 3, 10/3, 50, 1000 and 1/100 bytes per second
EstRates ==
    { None, Some([num |-> 0, den |-> 1]), Some([num |-> -1, den |-> 1]),
      Some([num |-> 1, den |-> 1]), Some([num |-> 3, den |-> 1]),
      Some([num |-> 10, den |-> 3]), Some([num |-> 50, den |-> 1]),
      Some([num |-> 1000, den |-> 1]), Some([num |-> 1, den |-> 100]) }


est_call(size, bps) ==
    [size |-> size, bps |-> bps, timeout |-> est_timeout_adaptativo(size, bps)]

EstInit ==
    /\ \E size \in EstSizes, bps \in EstRates : e_last = est_call(size, bps)
    /\ e_prev = e_last

EstCall(size, bps) ==
    /\ e_prev' = e_last
    /\ e_last' = est_call(size, bps)
    /\ UNCHANGED <<search_vars, restore_vars, measure_vars>>

EstNext == \E size \in EstSizes, bps \in EstRates : EstCall(size, bps)

(***************************************************************************)
(*            The measuring script (consumo_conteiner_paq.py)              *)
(***************************************************************************)
COPIES == 500

\* Time-series samples taken per compress phase, at most.
MaxSamples == 1

\* cont_bytes = container.stat().st_size, for pack_container(src, COPIES, ...)
measured_container_bytes == Len(pack_container(SrcData, COPIES, SrcBase))

\* The sizes the compressor's output may have.
MeasureSizes(cb) == {0, cb \div 2}

MeasureEnvs ==
    [input : BOOLEAN, psutil : BOOLEAN, cg_root : BOOLEAN, cg_mkdir : BOOLEAN,
     attach : BOOLEAN, cpu_stat : BOOLEAN, pidstat : BOOLEAN]

MeasureBlank ==
    /\ m_pc = "init"
    /\ m_dirs = FALSE
    /\ m_rows = <<>>
    /\ m_container = None
    /\ m_out = FALSE
    /\ m_launched = 0
    /\ m_running = 0
    /\ m_final = FALSE
    /\ m_summary = None
    /\ m_err = None

MeasureInit ==
    /\ m_env \in MeasureEnvs
    /\ MeasureBlank

\* csv_row(CSV_PATH, {..., "phase": phase, ..., "note": note})
measure_row(phase, note) == [phase |-> phase, note |-> note]

\* The rows of the sampling loops carry an empty note.
sample_rows(rows) == Cardinality({i \in 1..Len(rows) : rows[i].note = ""})

\* main up to the pack phase: ensure_dirs, csv_init, the input check.
MeasureStart ==
    /\ m_pc = "init"
    /\ m_dirs' = TRUE
    /\ IF m_env.input
       THEN m_pc' = "pack" /\ UNCHANGED m_err
       ELSE /\ m_pc' = "fatal"
            /\ m_err' = Some([kind |-> "FileNotFoundError", detail |-> "input"])
    /\ UNCHANGED <<m_env, m_rows, m_container, m_out, m_launched, m_running,
                   m_final, m_summary>>
    /\ UNCHANGED <<search_vars, restore_vars, est_vars>>

\* measure_pack_phase: "import psutil" is its first statement; the two rows
\* of the pack phase surround pack_container.
MeasurePack ==
    /\ m_pc = "pack"
    /\ IF m_env.psutil
       THEN /\ m_rows' = m_rows \o <<measure_row("pack", "start"),
                                     measure_row("pack", "end")>>
            /\ m_container' = Some(measured_container_bytes)
            /\ m_pc' = "compress"
            /\ UNCHANGED m_err
       ELSE /\ m_pc' = "fatal"
            /\ m_err' = Some([kind |-> "ModuleNotFoundError", detail |-> "psutil"])
            /\ UNCHANGED <<m_rows, m_container>>
    /\ UNCHANGED <<m_env, m_dirs, m_out, m_launched, m_running, m_final, m_summary>>
    /\ UNCHANGED <<search_vars, restore_vars, est_vars>>

\* run_gmix_and_measure up to its sampling loop.  Without cgroup v2 nothing
\* is started here.  cgv2_create makes two directories below /sys/fs/cgroup
\* and lets a refusal through.  With the compressor started, a failed attach
\* kills and reaps it, a missing cpu.stat terminates and reaps it; either
\* may leave some of the output file behind (partial).
CompressBegin(partial) ==
    /\ m_pc = "compress"
    /\ IF ~m_env.cg_root
       THEN /\ m_pc' = "fallback"
            /\ UNCHANGED <<m_rows, m_out, m_launched, m_running, m_err>>
       ELSE IF ~m_env.cg_mkdir
       THEN /\ m_pc' = "fatal"
            /\ m_err' = Some([kind |-> "PermissionError", detail |-> "cgroup"])
            /\ UNCHANGED <<m_rows, m_out, m_launched, m_running>>
       ELSE /\ m_launched' = m_launched + 1
            /\ UNCHANGED m_err
            /\ IF ~m_env.attach \/ ~m_env.cpu_stat
               THEN /\ m_out' = (m_out \/ partial)
                    /\ m_pc' = "fallback"
                    /\ UNCHANGED <<m_rows, m_running>>
               ELSE /\ m_rows' = Append(m_rows, measure_row("compress", "start"))
                    /\ m_running' = m_running + 1
                    /\ m_pc' = "sampling"
                    /\ UNCHANGED m_out
    /\ UNCHANGED <<m_env, m_dirs, m_container, m_final, m_summary>>
    /\ UNCHANGED <<search_vars, restore_vars, est_vars>>

\* One turn of the cgroup sampling loop while the compressor runs.
CgroupSample ==
    /\ m_pc = "sampling"
    /\ sample_rows(m_rows) < MaxSamples
    /\ m_rows' = Append(m_rows, measure_row("compress", ""))
    /\ UNCHANGED <<m_pc, m_env, m_dirs, m_container, m_out, m_launched, m_running,
                   m_final, m_summary, m_err>>
    /\ UNCHANGED <<search_vars, restore_vars, est_vars>>

\* p.poll() is not None: the last row, the cgroup's removal, the status.
CgroupExit(rc, wrote) ==
    /\ m_pc = "sampling"
    /\ m_rows' = Append(m_rows, measure_row("compress", "end"))
    /\ m_running' = m_running - 1
    /\ m_out' = (m_out \/ wrote)
    /\ IF rc # 0
       THEN /\ m_pc' = "fatal"
            /\ m_err' = Some([kind |-> "RuntimeError", detail |-> "tool_failed"])
       ELSE m_pc' = "finish" /\ UNCHANGED m_err
    /\ UNCHANGED <<m_env, m_dirs, m_container, m_launched, m_final, m_summary>>
    /\ UNCHANGED <<search_vars, restore_vars, est_vars>>

\* run_gmix_with_pidstat up to its loop: the compressor is started, then
\* pidstat; when pidstat cannot be started the exception leaves the
\* function with the compressor running.
FallbackBegin ==
    /\ m_pc = "fallback"
    /\ m_launched' = m_launched + 1
    /\ m_running' = m_running + 1
    /\ IF m_env.pidstat
       THEN /\ m_rows' = Append(m_rows, measure_row("compress", "start(fallback_pidstat)"))
            /\ m_pc' = "pidstat"
            /\ UNCHANGED m_err
       ELSE /\ m_pc' = "fatal"
            /\ m_err' = Some([kind |-> "FileNotFoundError", detail |-> "pidstat"])
            /\ UNCHANGED m_rows
    /\ UNCHANGED <<m_env, m_dirs, m_container, m_out, m_final, m_summary>>
    /\ UNCHANGED <<search_vars, restore_vars, est_vars>>

\* One line of pidstat turned into a row.
PidstatSample ==
    /\ m_pc = "pidstat"
    /\ sample_rows(m_rows) < MaxSamples
    /\ m_rows' = Append(m_rows, measure_row("compress", ""))
    /\ UNCHANGED <<m_pc, m_env, m_dirs, m_container, m_out, m_launched, m_running,
                   m_final, m_summary, m_err>>
    /\ UNCHANGED <<search_vars, restore_vars, est_vars>>

\* The compressor has ended: rc = p.wait(), the last row, the status.
PidstatExit(rc, wrote) ==
    /\ m_pc = "pidstat"
    /\ m_rows' = Append(m_rows, measure_row("compress", "end(fallback_pidstat)"))
    /\ m_running' = m_running - 1
    /\ m_out' = (m_out \/ wrote)
    /\ IF rc # 0
       THEN /\ m_pc' = "fatal"
            /\ m_err' = Some([kind |-> "RuntimeError", detail |-> "tool_failed"])
       ELSE m_pc' = "finish" /\ UNCHANGED m_err
    /\ UNCHANGED <<m_env, m_dirs, m_container, m_launched, m_final, m_summary>>
    /\ UNCHANGED <<search_vars, restore_vars, est_vars>>

\* (1 - comp_bytes / max(cont_bytes, 1)) * 100.0, in hundredths of a percent
summary_reduction(cont, comp) ==
    ((Max(cont, 1) - comp) * 10000) \div Max(cont, 1)

measure_summary(cont, comp) ==
    [copies |-> COPIES, container_bytes |-> cont, gmix_bytes |-> comp,
     reduction_pct |-> summary_reduction(cont, comp)]

\* main after the compress phase: gmix_out.stat(), the copy of the final
\* artifacts (its failure passed over: copied), summary.json.
MeasureFinish(copied, comp) ==
    /\ m_pc = "finish"
    /\ IF ~m_out
       THEN /\ m_pc' = "fatal"
            /\ m_err' = Some([kind |-> "FileNotFoundError", detail |-> "output"])
            /\ UNCHANGED <<m_final, m_summary>>
       ELSE /\ m_final' = copied
            /\ m_summary' = Some(measure_summary(Val(m_container), comp))
            /\ m_pc' = "done"
            /\ UNCHANGED m_err
    /\ UNCHANGED <<m_env, m_dirs, m_rows, m_container, m_out, m_launched, m_running>>
    /\ UNCHANGED <<search_vars, restore_vars, est_vars>>

ExitCodes == {0, 1}

MeasureNext ==
    \/ MeasureStart
    \/ MeasurePack
    \/ \E partial \in BOOLEAN : CompressBegin(partial)
    \/ CgroupSample
    \/ \E rc \in ExitCodes, wrote \in BOOLEAN : CgroupExit(rc, wrote)
    \/ FallbackBegin
    \/ PidstatSample
    \/ \E rc \in ExitCodes, wrote \in BOOLEAN : PidstatExit(rc, wrote)
    \/ \E copied \in BOOLEAN, comp \in MeasureSizes(measured_container_bytes) :
          MeasureFinish(copied, comp)

(***************************************************************************)
(*                           Specifications                                *)
(***************************************************************************)
\* A subsystem that takes no part in a specification stays as it starts.
SearchIdle ==
    /\ variant = "gmix"
    /\ input_exists = TRUE
    /\ pc = "init"
    /\ workdir = FALSE
    /\ it = 0
    /\ copies = 0
    /\ cont_bytes = 0
    /\ timeout_s = 0
    /\ attempt = 0
    /\ stop_due_timeout = FALSE
    /\ best = None
    /\ last_bps = None
    /\ csv = <<>>
    /\ containers = {}
    /\ outputs = {}
    /\ final = None
    /\ err = None
    /\ est0 = 0
    /\ calls = 0
    /\ last_call = [attempt |-> 0, timeout |-> 0, outcome |-> "none", wrote |-> FALSE,
                    alongside |-> FALSE]
    /\ packed = <<>>
    /\ last_ok = None
    /\ orphan = FALSE
    /\ fs = {}
    /\ adapter_ret = None
    /\ tool_text = ""

RestoreIdle ==
    /\ r_fixture = BlobFile(<<>>)
    /\ r_present = FALSE
    /\ r_name = FINAL_BSC
    /\ r_manifest = None
    /\ RestoreBlank

MeasureIdle ==
    /\ m_env = [input |-> FALSE, psutil |-> FALSE, cg_root |-> FALSE,
                cg_mkdir |-> FALSE, attach |-> FALSE, cpu_stat |-> FALSE,
                pidstat |-> FALSE]
    /\ MeasureBlank

EstIdle ==
    /\ e_last = est_call(0, None)
    /\ e_prev = e_last

\* The search run.
Init == SearchInit /\ RestoreIdle /\ EstIdle /\ MeasureIdle
Next == SearchNext
Spec == Init /\ [][Next]_vars

\* The search run when every step it can take is taken in the end: the
\* script is one sequential process and every adapter invocation returns.
SpecLive == Init /\ [][Next]_vars /\ WF_vars(Next)

\* The restore run.
InitRestore == RestoreInit /\ SearchIdle /\ EstIdle /\ MeasureIdle
SpecRestore == InitRestore /\ [][RestoreNext]_vars

\* The estimator alone.
InitEst == EstInit /\ SearchIdle /\ RestoreIdle /\ MeasureIdle
SpecEst == InitEst /\ [][EstNext]_vars

\* The measuring run.
InitMeasure == MeasureInit /\ SearchIdle /\ RestoreIdle /\ EstIdle
SpecMeasure == InitMeasure /\ [][MeasureNext]_vars

(***************************************************************************)
(*                             Properties                                  *)
(***************************************************************************)
\* "copy_" + i in four decimal digits + "_" + base, for i below 10000.
ExpectedName(i, base) ==
    <<99, 111, 112, 121, 95,
      48 + ((i \div 1000) % 10), 48 + ((i \div 100) % 10),
      48 + ((i \div 10) % 10), 48 + (i % 10), 95>> \o base

\* The raw container is a file pack_container wrote.
RawIsPacked == ~IsNone(r_raw) /\ Val(r_raw).kind = "packed"

\* unpack_container has run: it returned, or it raised.
Unpacked ==
    \/ r_pc \in {"report", "done"}
    \/ r_pc = "fatal" /\ Val(r_err).kind = "struct.error"

\* The files the N copies of a payload are to come back as.
ExpectedFiles(f) ==
    {[name |-> ExpectedName(i, f.base), data |-> f.data] : i \in 1..f.copies}

\* C1: unpack_container applied to the file pack_container wrote from a
\* payload, a copy count N >= 1 and a base name returns, has written exactly
\* N files, each holding the payload, named copy_<i in 4 digits>_<base> for
\* i = 1..N, and returns their paths in that order.
C1_RoundTrip ==
    (RawIsPacked /\ Unpacked) =>
        LET f == Val(r_raw)
        IN  /\ r_pc # "fatal"
            /\ Len(r_extracted) = f.copies
            /\ \A i \in 1..f.copies : r_extracted[i] = ExpectedName(i, f.base)
            /\ r_dir = ExpectedFiles(f)
            /\ Cardinality(r_dir) = f.copies

\* Three copies of a two-byte payload under a non-ASCII base name have been
\* unpacked.
C1_Witness ==
    /\ RawIsPacked
    /\ Unpacked
    /\ Val(r_raw).copies = 3
    /\ Val(r_raw).data = <<0, 255>>
    /\ Val(r_raw).base = <<233, 46, 98>>
    /\ Len(r_extracted) = 3

\* is_container has been applied to a file pack_container wrote.
SniffedPacked == RawIsPacked /\ ~IsNone(r_sniff) /\ Val(r_raw).copies >= 1

\* C8: is_container returns true for every file pack_container wrote from
\* any payload and base name and a copy count N with
\* 1 <= N <= SNIFF_MAX_COUNT.
C8_SniffAcceptsPackedWithinLimit ==
    (SniffedPacked /\ Val(r_raw).copies <= SNIFF_MAX_COUNT) => Val(r_sniff) = TRUE

\* C8 as stated, for every copy count N >= 1.
C8_SniffAcceptsEveryPacked == SniffedPacked => Val(r_sniff) = TRUE

\* The smallest container (one copy of the empty payload) has been accepted.
C8_Witness ==
    /\ SniffedPacked
    /\ Val(r_raw).copies = 1
    /\ Val(r_raw).data = <<>>
    /\ r_sniff = Some(TRUE)

\* decide_algo has run on an existing artifact.
Decided == r_dirs /\ ~IsNone(r_artifact)

\* The value a readable sibling manifest declares, when it is one of the
\* five supported algorithms.
ManifestDeclaresSupported ==
    /\ ~IsNone(r_manifest)
    /\ Val(r_manifest).readable
    /\ ~IsNone(Val(r_manifest).algorithm)
    /\ Val(Val(r_manifest).algorithm) \in {S_cmix, S_gmix, S_bsc, S_lstm, S_paq8px}

\* C9: decide_algo returns the algorithm a sibling manifest.json declares
\* whenever that value is a supported one, whatever the file's name or
\* extension suggests; with no sibling manifest, final_container.bsc
\* resolves to bsc.
C9_ManifestWins ==
    Decided =>
        /\ ManifestDeclaresSupported => r_algo = Val(r_manifest).algorithm
        /\ (IsNone(r_manifest) /\ r_name = FINAL_BSC) => r_algo = Some(S_bsc)

\* final_container.bsc beside a manifest declaring gmix resolved to gmix.
C9_Witness ==
    /\ Decided
    /\ r_name = FINAL_BSC
    /\ r_manifest = ManifestFile(TRUE, Some(S_gmix))
    /\ r_algo = Some(S_gmix)
    /\ r_pc = "stage1"

\* Stage 2 of the restore run rejected or failed to unpack the raw container.
StageTwoFailed ==
    /\ r_pc = "fatal"
    /\ Val(r_err).detail \in {"not_a_container", "short_read"}

\* C10: N copies of a payload (N below 10) packed, copied through the
\* compressor and the decompressor and restored: stage 2 does not fail, and
\* the finished run has left exactly the N files copy_0001_<base> ..
\* copy_000N_<base>, each holding the payload, one inventory row per file,
\* and extracted_count = N.
C10_RestoreEndToEnd ==
    (RawIsPacked /\ Val(r_raw).copies < 10) =>
        /\ ~StageTwoFailed
        /\ r_pc = "done" =>
              /\ r_dir = ExpectedFiles(Val(r_raw))
              /\ Cardinality(r_dir) = Val(r_raw).copies
              /\ Val(r_report).extracted_count = Val(r_raw).copies
              /\ Len(Val(r_inventory)) = Val(r_raw).copies
              /\ \A i \in 1..Val(r_raw).copies :
                    /\ Val(r_inventory)[i].file = ExpectedName(i, Val(r_raw).base)
                    /\ Val(r_inventory)[i].size_bytes = Len(Val(r_raw).data)

\* A restore of three copies of a two-byte payload has finished.
C10_Witness ==
    /\ r_pc = "done"
    /\ RawIsPacked
    /\ Val(r_raw).copies = 3
    /\ Val(r_raw).data = <<0, 255>>
    /\ Val(r_report).extracted_count = 3

\* C7: est_timeout_adaptativo is non-decreasing in the container size for a
\* fixed throughput, and at least TIMEOUT_BASE_SEC for every size and every
\* throughput, None included.
C7_EstimateMonotoneAndFloored ==
    /\ e_last.timeout >= TIMEOUT_BASE_SEC
    /\ (e_prev.bps = e_last.bps /\ e_prev.size <= e_last.size)
          => e_prev.timeout <= e_last.timeout

\* Two calls with the same measured throughput, the larger size getting the
\* strictly larger estimate.
C7_Witness ==
    /\ ~IsNone(e_last.bps)
    /\ e_prev.bps = e_last.bps
    /\ e_prev.size < e_last.size
    /\ TIMEOUT_BASE_SEC < e_prev.timeout
    /\ e_prev.timeout < e_last.timeout

\* The latest row of the CSV log.
LastRow == csv[Len(csv)]

\* C2: the loop stops at the first iteration whose reduction is below
\* THRESHOLD_PCT: every earlier row is at or above it; the iteration of a
\* row below it is not the best, the best is the iteration before it (none
\* when it is the first), and it is the last copy count packed; a row at or
\* above it makes its iteration the best.
C2_StoppingRule ==
    /\ \A j \in 1..(Len(csv) - 1) : csv[j].reduction_pct >= THRESHOLD_PCT
    /\ \A j \in 1..Len(csv) : csv[j].iter = j /\ csv[j].copies = j
    /\ (Len(csv) > 0 /\ LastRow.reduction_pct < THRESHOLD_PCT) =>
          /\ pc \in {"finalize", "done"}
          /\ it = LastRow.iter
          /\ packed = [j \in 1..it |-> j]
          /\ containers = 1..it
          /\ IF it = 1 THEN IsNone(best)
             ELSE ~IsNone(best) /\ Val(best).iter = it - 1 /\ Val(best).copies = it - 1
          /\ (pc = "done" /\ it > 1) =>
                /\ Val(final).container = it - 1
                /\ Val(Val(final).manifest).best.iter = it - 1
    /\ (Len(csv) > 0 /\ LastRow.reduction_pct >= THRESHOLD_PCT) =>
          /\ ~IsNone(best)
          /\ Val(best).iter = LastRow.iter

\* An accepted iteration, then one below the threshold: the run has
\* finished with the first as the best.
C2_Witness ==
    /\ pc = "done"
    /\ Len(csv) = 2
    /\ csv[1].reduction_pct >= THRESHOLD_PCT
    /\ csv[2].reduction_pct < THRESHOLD_PCT
    /\ Val(best).iter = 1
    /\ Val(final).container = 1
    /\ ~stop_due_timeout

\* The supervisor has given up on the current copy count.
Exhausted ==
    \/ stop_due_timeout
    \/ ~IsNone(err) /\ Val(err).kind = "TimeoutExpired"

\* C3: an iteration whose invocations all time out makes exactly RETRY_MAX
\* of them and then is Exhausted: while an invocation is pending fewer than
\* RETRY_MAX were made; a timeout before the RETRY_MAX-th leads to the next
\* attempt, the RETRY_MAX-th to Exhausted; nothing is invoked afterwards.
C3_AlwaysTimeout ==
    /\ calls <= RETRY_MAX
    /\ pc = "attempt" => (calls < RETRY_MAX /\ attempt = calls + 1)
    /\ last_call.outcome = "timeout" =>
          /\ last_call.attempt = calls
          /\ IF calls < RETRY_MAX THEN pc = "attempt" /\ ~Exhausted ELSE Exhausted
    /\ Exhausted =>
          /\ calls = RETRY_MAX
          /\ last_call.outcome = "timeout"
          /\ pc \in {"finalize", "done", "fatal"}
          /\ packed[Len(packed)] = it

\* RETRY_MAX invocations of one iteration have all timed out.
C3_Witness ==
    /\ Exhausted
    /\ calls = RETRY_MAX
    /\ last_call.outcome = "timeout"
    /\ last_call.attempt = RETRY_MAX

\* C4: attempt j of an iteration runs with the iteration's initial estimate
\* times 2^(j-1); an invocation that succeeds on attempt k <= RETRY_MAX
\* ends the retry loop of its iteration.
C4_BackoffDoubles ==
    /\ pc = "attempt" =>
          /\ est0 = est_timeout_adaptativo(cont_bytes, last_bps)
          /\ timeout_s = est0 * 2 ^ (attempt - 1)
    /\ calls > 0 =>
          /\ last_call.attempt = calls
          /\ last_call.attempt <= RETRY_MAX
          /\ last_call.timeout = est0 * 2 ^ (last_call.attempt - 1)
    /\ last_call.outcome = "ok" =>
          /\ pc \in {"loop", "finalize", "done", "fatal"}
          /\ pc = "fatal" => Val(err).detail = "missing_output"

\* An invocation has succeeded on the third attempt, with four times the
\* initial estimate, and its row is in the CSV log.
C4_Witness ==
    /\ last_call.outcome = "ok"
    /\ last_call.attempt = 3
    /\ last_call.timeout = 4 * est0
    /\ Len(csv) > 0
    /\ LastRow.iter = it

\* C5: retries exhausted with no best: the run is fatal with the timeout
\* error and nothing is finalized; with a best: no error, the loop has
\* stopped, and finalization puts the best iteration's container and output
\* and its manifest in place, as it does after a stop by the threshold.
C5_Exhausted ==
    /\ (last_call.outcome = "timeout" /\ calls = RETRY_MAX) =>
          IF IsNone(best)
          THEN /\ pc = "fatal"
               /\ err = Some([kind |-> "TimeoutExpired", detail |-> "timeout"])
               /\ IsNone(final)
               /\ ~stop_due_timeout
          ELSE /\ stop_due_timeout
               /\ IsNone(err)
               /\ pc \in {"finalize", "done"}
               /\ Val(best).iter = it - 1
    /\ (~IsNone(err) /\ Val(err).kind = "TimeoutExpired") => IsNone(best)
    /\ (pc = "done" /\ ~IsNone(best)) =>
          /\ Val(final).container = Val(best).iter
          /\ Val(final).output = Val(best).iter
          /\ ~IsNone(Val(final).manifest)
          /\ Val(Val(final).manifest).best.iter = Val(best).iter
          /\ Val(Val(final).manifest).best.copies = Val(best).copies
          /\ Val(Val(final).manifest).best.compressed_bytes = Val(best).meta.compressed
          /\ Len(Val(Val(final).manifest).inner_files) = Val(best).copies

\* A run whose second iteration exhausted its retries has finished around
\* the first iteration.
C5_Witness ==
    /\ pc = "done"
    /\ stop_due_timeout
    /\ it = 2
    /\ Val(best).iter = 1
    /\ Val(final).container = 1
    /\ ~IsNone(Val(final).manifest)

\* C6: a non-zero exit status is not retried: the run is fatal at once with
\* a RuntimeError carrying the tool's text, the attempt counter and the
\* timeout stay as they were, nothing is finalized, and no step follows,
\* whether or not a best exists.
C6_HardFailureNotRetried ==
    /\ last_call.outcome = "fail" =>
          /\ pc = "fatal"
          /\ tool_text \in ToolTexts
          /\ err = Some([kind |-> "RuntimeError", detail |-> tool_text])
          /\ last_call.attempt = calls
          /\ attempt = last_call.attempt
          /\ timeout_s = last_call.timeout
          /\ ~stop_due_timeout
          /\ IsNone(final)
          /\ ~ENABLED SearchNext
    /\ (~IsNone(err) /\ Val(err).detail \in ToolTexts) => last_call.outcome = "fail"

\* The tool failed on the second attempt of the second iteration, a best
\* being in hand.
C6_Witness ==
    /\ last_call.outcome = "fail"
    /\ last_call.attempt = 2
    /\ it = 2
    /\ ~IsNone(best)
    /\ pc = "fatal"

\* The throughput the latest zero-exit invocation measured, when its time
\* is positive and its original size is not zero; else the throughput in
\* use before it.
BpsAfterLastOk ==
    LET m == Val(last_ok)
    IN  IF m.time_s > 0 /\ m.original # 0
        THEN Some([num |-> m.original, den |-> m.time_s])
        ELSE m.bps_before

\* C11: after every zero-exit invocation that left an output, accepted as
\* best or not, the throughput history is the one it measured, provided its
\* time is positive and its original size is not zero (else the history is
\* left as it was); the estimate of iteration i+1 is computed from the
\* history as iteration i left it.
C11_ThroughputHistory ==
    /\ (last_call.outcome = "ok" /\ ~IsNone(last_ok) /\ Val(last_ok).iter = it) =>
          last_bps = BpsAfterLastOk
    /\ (pc = "attempt" /\ it > 1) =>
          /\ ~IsNone(last_ok)
          /\ Val(last_ok).iter = it - 1
          /\ est0 = est_timeout_adaptativo(cont_bytes, BpsAfterLastOk)

\* C11 as stated: the estimate of iteration i+1 always comes from the
\* throughput iteration i measured.
C11_EstimateFromPreviousIteration ==
    (pc = "attempt" /\ it > 1) =>
        /\ ~IsNone(last_ok)
        /\ Val(last_ok).iter = it - 1
        /\ last_bps = Some([num |-> Val(last_ok).original, den |-> Val(last_ok).time_s])

\* The second iteration is about to run with a timeout estimated from the
\* throughput the first one measured, not from the default.
C11_Witness ==
    /\ pc = "attempt"
    /\ it = 2
    /\ Val(last_ok).iter = 1
    /\ Val(last_ok).time_s > 0
    /\ last_bps = Some([num |-> Val(last_ok).original, den |-> Val(last_ok).time_s])
    /\ est0 = est_timeout_adaptativo(cont_bytes, last_bps)
    /\ est0 # est_timeout_adaptativo(cont_bytes, None)

\* The run has ended without a fatal error.
EndedWithoutError == pc = "done" /\ IsNone(err)

\* C12: a run that ended without a fatal error and accepted some iteration
\* has copied that iteration's container and compressed artifact, both
\* existing, and written a manifest with its iteration, copies, sizes and
\* reduction (the reduction of its CSV row); a run that accepted none has
\* copied the first iteration's two files and written no manifest.
C12_FinalizationOfBest ==
    EndedWithoutError =>
        /\ ~IsNone(final)
        /\ Val(final).container \in containers
        /\ Val(final).output \in outputs
        /\ IF IsNone(best)
           THEN /\ Val(final).container = 1
                /\ Val(final).output = 1
                /\ IsNone(Val(final).manifest)
           ELSE LET b == Val(best)
                    m == Val(Val(final).manifest)
                IN  /\ Val(final).container = b.iter
                    /\ Val(final).output = b.iter
                    /\ ~IsNone(Val(final).manifest)
                    /\ m.best.iter = b.iter
                    /\ m.best.copies = b.iter
                    /\ m.best.original_bytes = b.meta.original
                    /\ m.best.compressed_bytes = b.meta.compressed
                    /\ m.best.reduction_pct = csv[b.iter].reduction_pct
                    /\ m.best.reduction_pct >= THRESHOLD_PCT

\* C12 as stated: every run that ended without a fatal error has a best
\* iteration and a manifest describing it.
C12_AlwaysManifest ==
    EndedWithoutError =>
        /\ ~IsNone(final)
        /\ ~IsNone(best)
        /\ ~IsNone(Val(final).manifest)
        /\ Val(final).container = Val(best).iter

\* The run reached the iteration ceiling and finalized its last iteration.
C12_Witness ==
    /\ EndedWithoutError
    /\ ~IsNone(best)
    /\ Val(best).iter = MAX_ITERS
    /\ Val(final).container = MAX_ITERS
    /\ Val(Val(final).manifest).best.copies = MAX_ITERS

\* The raw container is one of the files that hold no container: empty, a
\* count of zero, a count above every limit.
RawIsNoContainer ==
    /\ ~IsNone(r_raw)
    /\ Val(r_raw).kind = "blob"
    /\ Val(r_raw).bytes \in {<<>>, <<0, 0, 0, 0>>, <<255, 255, 255, 255, 1>>}

\* C13: stage 2 unpacks only what is_container accepted; when it rejects,
\* the run is fatal with the format-mismatch error, nothing is in the
\* extraction directory, there is no inventory and no restore manifest, and
\* no step follows.  A raw file that holds no container is rejected.
C13_SniffGate ==
    /\ r_pc \in {"unpack", "report", "done"} => r_sniff = Some(TRUE)
    /\ (r_extracted # <<>> \/ r_dir # {} \/ ~IsNone(r_inventory) \/ ~IsNone(r_report))
          => r_sniff = Some(TRUE)
    /\ r_sniff = Some(FALSE) =>
          /\ r_pc = "fatal"
          /\ r_err = Some([kind |-> "RuntimeError", detail |-> "not_a_container"])
          /\ r_dir = {}
          /\ r_extracted = <<>>
          /\ IsNone(r_inventory)
          /\ IsNone(r_report)
          /\ ~ENABLED RestoreNext
    /\ (RawIsNoContainer /\ r_pc # "stage2") => r_sniff = Some(FALSE)

\* A raw file with a count of zero has been rejected.
C13_Witness ==
    /\ RawIsNoContainer
    /\ Val(r_raw).bytes = <<0, 0, 0, 0>>
    /\ r_sniff = Some(FALSE)
    /\ r_pc = "fatal"

\* C14: an invocation that exits with status zero without having written
\* its output file makes the run fatal with the missing-output error; its
\* iteration gets no CSV row and is not the best.
C14_MissingOutputIsFatal ==
    (last_call.outcome = "ok" /\ ~last_call.wrote) =>
        /\ pc = "fatal"
        /\ err = Some([kind |-> "RuntimeError", detail |-> "missing_output"])
        /\ (Len(csv) = 0 \/ LastRow.iter # it)
        /\ (IsNone(best) \/ Val(best).iter # it)

\* C15: when the next attempt starts, nothing of the timed-out invocation is
\* running any more: no invocation runs alongside a helper of an earlier
\* attempt that holds the same output path.
C15_NoLeftoverWriter ==
    /\ pc = "attempt" => ~orphan
    /\ ~last_call.alongside

\* C16: with INPUT_FILE absent the run fails with the missing-input error
\* before any work: no container packed, no tool invoked, and neither the
\* working directories nor the CSV report created.
C16_MissingInputBeforeAnyWork ==
    (~input_exists /\ pc # "init") =>
        /\ pc = "fatal"
        /\ err = Some([kind |-> "FileNotFoundError", detail |-> "input"])
        /\ packed = <<>>
        /\ containers = {}
        /\ calls = 0
        /\ csv = <<>>
        /\ ~workdir

\* The sibling manifest names one of the five supported algorithms (after
\* stripping blanks and lowering the case).
ManifestIdentifies ==
    /\ ~IsNone(r_manifest)
    /\ Val(r_manifest).readable
    /\ ~IsNone(Val(r_manifest).algorithm)
    /\ lower(strip(Val(Val(r_manifest).algorithm)))
          \in {S_cmix, S_gmix, S_bsc, S_lstm, S_paq8px}

\* The lowered path ends with one of the seven suffixes.
SuffixIdentifies ==
    \E i \in 1..Len(EXT_MAP_KEYS) : endswith(lower(r_name), EXT_MAP_KEYS[i])

\* The file name holds cmix, gmix or bsc as a whole word, or lstm or paq
\* anywhere, in any case.
NameIdentifies ==
    \/ \E tok \in {S_cmix, S_gmix, S_bsc} : search_token(r_name, tok, TRUE)
    \/ \E tok \in {S_lstm, <<112, 97, 113>>} : search_token(r_name, tok, FALSE)

\* C17: when neither the manifest, nor a suffix, nor a name pattern
\* identifies an algorithm for an existing artifact, the run is fatal with
\* the error that names the file and lists the seven suffixes, and no
\* decompressor is launched nor any raw container written.
C17_UnresolvedAlgorithm ==
    (Decided /\ ~ManifestIdentifies /\ ~SuffixIdentifies /\ ~NameIdentifies) =>
        /\ r_pc = "fatal"
        /\ Val(r_err).kind = "RuntimeError"
        /\ Val(r_err).detail = "unresolved_algorithm"
        /\ Val(r_err).file = r_name
        /\ { Val(r_err).suffixes[i] : i \in 1..Len(Val(r_err).suffixes) }
              = { EXT_BY_LENGTH[i].ext : i \in 1..Len(EXT_BY_LENGTH) }
        /\ IsNone(r_algo)
        /\ IsNone(r_raw)
        /\ ~ENABLED DecompressTimeout
        /\ ~ENABLED (\E wrote \in BOOLEAN : DecompressOk(wrote))

\* x_bsc.dat beside a manifest that declares bsc-m03: nothing identifies an
\* algorithm and the run has ended on the detection error.
C17_Witness ==
    /\ r_name = <<120, 95, 98, 115, 99, 46, 100, 97, 116>>
    /\ r_manifest = ManifestFile(TRUE, Some(S_bsc_m03))
    /\ r_pc = "fatal"
    /\ Val(r_err).detail = "unresolved_algorithm"
    /\ Val(r_err).file = r_name

\* C18: no failure is swallowed outside the optional telemetry setup: a
\* sibling manifest.json that cannot be read or parsed ends the restore run
\* with an error instead of being passed over.
C18_ManifestFailureSurfaces ==
    (Decided /\ ~IsNone(r_manifest) /\ ~Val(r_manifest).readable) =>
        /\ r_pc = "fatal"
        /\ ~IsNone(r_err)
        /\ IsNone(r_algo)

\* The paths of every iteration the loop can reach, by iteration.
ContainerPaths == [i \in 1..MAX_ITERS |-> container_path(i)]
OutputPaths == [v \in Variants |-> [i \in 1..MAX_ITERS |-> output_path(v, i)]]

\* The file at a path, as the run left it.
FileAt(path) == CHOOSE e \in fs : e.path = path

\* C20: every iteration writes its container and its output at paths of
\* its own: each iteration that packed a container, or left an output,
\* still owns a file that no other iteration has written since; no path
\* holds files of two iterations; and the best iteration's container and
\* output are as that iteration wrote them.
C20_PathsPerIteration ==
    /\ \A i \in containers : \E e \in fs : e.kind = "container" /\ e.writer = i
    /\ \A i \in outputs : \E e \in fs : e.kind = "output" /\ e.writer = i
    /\ \A e1, e2 \in fs : e1.path = e2.path => e1 = e2
    /\ \A i, j \in 1..it :
          i # j => /\ ContainerPaths[i] # ContainerPaths[j]
                   /\ OutputPaths[variant][i] # OutputPaths[variant][j]
                   /\ ContainerPaths[i] # OutputPaths[variant][j]
    /\ ~IsNone(best) =>
          /\ \E e \in fs : e.path = ContainerPaths[Val(best).iter]
          /\ \E e \in fs : e.path = OutputPaths[variant][Val(best).iter]
          /\ FileAt(ContainerPaths[Val(best).iter]).writer = Val(best).iter
          /\ FileAt(OutputPaths[variant][Val(best).iter]).writer = Val(best).iter

\* The second iteration has run to its verdict after the first became the
\* best: the run is over and the first iteration's two files are its own.
C20_Witness ==
    /\ pc = "done"
    /\ it = 2
    /\ Val(best).iter = 1
    /\ 2 \in outputs
    /\ Cardinality(fs) = 4
    /\ FileAt(output_path(variant, 1)).writer = 1
    /\ FileAt(output_path(variant, 2)).writer = 2

\* C19: no absence or failure of the telemetry mechanism (psutil, cgroup
\* v2, the cgroup attach, cpu.stat, pidstat) blocks or aborts the measured
\* run: with the input present, a run only ends in an error that comes from
\* the compressor itself, and a compressor that exits with status zero and
\* leaves its output is followed by the summary.
C19_TelemetryNeverAborts ==
    /\ (m_pc = "fatal" /\ m_env.input) =>
          /\ Val(m_err).detail \in {"tool_failed", "output"}
          /\ ~IsNone(m_container)
          /\ m_launched > 0
    /\ m_pc = "done" => ~IsNone(m_summary)

\* C21: the reduction recorded for an iteration is (1 - compressed /
\* original) * 100 (here in hundredths of a percent, rounded down) for every
\* pair of sizes the adapter reported, compressed = 0 and compressed >
\* original included.
C21_ReductionFormula ==
    (/\ last_call.outcome = "ok"
     /\ ~IsNone(last_ok) /\ Val(last_ok).iter = it
     /\ Len(csv) > 0 /\ LastRow.iter = it
     /\ Val(last_ok).original > 0
     /\ ~IsNone(LastRow.compressed)) =>
        LastRow.reduction_pct =
            ((Val(last_ok).original - Val(LastRow.compressed)) * 10000)
                \div Val(last_ok).original

\* The little-endian unsigned value of the w bytes after position p; the
\* bytes above the fourth are required to be zero and add nothing.
FieldAt(bytes, p, w) ==
    bytes[p + 1]
    + (IF w >= 2 THEN 256 * bytes[p + 2] ELSE 0)
    + (IF w >= 4 THEN 65536 * bytes[p + 3] + 16777216 * bytes[p + 4] ELSE 0)
FieldHighZero(bytes, p, w) == \A k \in 5..w : bytes[p + k] = 0

\* The UTF-8 bytes of a name whose code points are below 2048.
RECURSIVE NameBytes(_)
NameBytes(s) ==
    IF s = <<>> THEN <<>>
    ELSE (IF s[1] < 128 THEN <<s[1]>>
          ELSE <<192 + (s[1] \div 64), 128 + (s[1] % 64)>>) \o NameBytes(Tail(s))

\* From position p on, bytes holds exactly the entries i..n of a container
\* of n copies of data named after base, and nothing after them.
RECURSIVE EntriesAt(_, _, _, _, _, _)
EntriesAt(bytes, p, i, n, data, base) ==
    IF i > n THEN p = Len(bytes)
    ELSE LET nb == NameBytes(ExpectedName(i, base))
             q  == p + 2 + Len(nb)
         IN  /\ q + 8 + Len(data) <= Len(bytes)
             /\ FieldAt(bytes, p, 2) = Len(nb)
             /\ SubSeq(bytes, p + 3, q) = nb
             /\ FieldAt(bytes, q, 8) = Len(data)
             /\ FieldHighZero(bytes, q, 8)
             /\ SubSeq(bytes, q + 9, q + 8 + Len(data)) = data
             /\ EntriesAt(bytes, q + 8 + Len(data), i + 1, n, data, base)

\* 4 + the sum over the entries of (2 + name length + 8 + payload length)
RECURSIVE LayoutSize(_, _, _)
LayoutSize(n, data, base) ==
    IF n = 0 THEN 4
    ELSE LayoutSize(n - 1, data, base)
         + 2 + Len(NameBytes(ExpectedName(n, base))) + 8 + Len(data)

\* C22: a container pack_container wrote is the little-endian u32 copy
\* count, then per entry the u16 name length, the UTF-8 name, the u64 data
\* length equal to the payload's length, and the payload; its size is
\* 4 + the sum over the entries of (2 + name length + 8 + payload length).
C22_ContainerLayout ==
    (~IsNone(r_artifact) /\ Val(r_artifact).kind = "packed") =>
        LET f == Val(r_artifact)
            bytes == Content(f)
        IN  /\ Len(bytes) >= 4
            /\ FieldAt(bytes, 0, 4) = f.copies
            /\ EntriesAt(bytes, 4, 1, f.copies, f.data, f.base)
            /\ Len(bytes) = LayoutSize(f.copies, f.data, f.base)

\* A container of three copies of a two-byte payload under a name with a
\* two-byte character has been written and restored.
C22_Witness ==
    /\ r_pc = "done"
    /\ ~IsNone(r_artifact)
    /\ Val(r_artifact).kind = "packed"
    /\ Val(r_artifact).copies = 3
    /\ Val(r_artifact).data = <<0, 255>>
    /\ Val(r_artifact).base = <<233, 46, 98>>
    /\ Len(Content(Val(r_artifact))) = 4 + 3 * (2 + 14 + 8 + 2)

\* The little-endian field of w bytes after position p exceeds limit (a
\* limit below 2^24).
FieldExceeds(bytes, p, w, limit) ==
    \/ \E k \in 4..w : bytes[p + k] # 0
    \/ bytes[p + 1] + 256 * bytes[p + 2]
          + (IF w >= 3 THEN 65536 * bytes[p + 3] ELSE 0) > limit
FieldIsZero(bytes, p, w) == \A k \in 1..w : bytes[p + k] = 0

\* The reasons for which the sniff is to reject a file, in the order of the
\* file's fields.
SniffShouldReject(bytes) ==
    \/ Len(bytes) < 4
    \/ FieldIsZero(bytes, 0, 4)
    \/ FieldExceeds(bytes, 0, 4, SNIFF_MAX_COUNT)
    \/ Len(bytes) < 6
    \/ FieldIsZero(bytes, 4, 2)
    \/ FieldExceeds(bytes, 4, 2, SNIFF_MAX_NAME)
    \/ LET name_len == bytes[5] + 256 * bytes[6]
       IN  \/ Len(bytes) < 6 + name_len + 8
           \/ FieldExceeds(bytes, 6 + name_len, 8, Len(bytes) - (6 + name_len + 8))

\* C23: the sniff rejects a file exactly when it has fewer than 4 bytes,
\* its count is 0 or above the limit, its first name length is 0 or above
\* 4096, it ends before the end of the first entry's name or 8-byte length
\* field, or the first entry's declared data length exceeds the bytes that
\* follow that field; nothing after the first entry's header is looked at.
C23_SniffRejectsExactly ==
    ~IsNone(r_sniff) =>
        (Val(r_sniff) = ~SniffShouldReject(Content(Val(r_raw))))

\* The sniff has accepted a file whose second entry is cut short, and the
\* unpacking then failed.
C23_Witness ==
    /\ r_fixture = BlobFile(TruncatedContainer)
    /\ r_sniff = Some(TRUE)
    /\ r_pc = "fatal"
    /\ Val(r_err).kind = "struct.error"

\* ".cmix", ".gmix", ".bsc", ".lstm", ".paq8", ".paq8px", ".paq"
KnownSuffixes ==
    { <<46>> \o S_cmix, <<46>> \o S_gmix, <<46>> \o S_bsc, <<46>> \o S_lstm,
      <<46, 112, 97, 113, 56>>, <<46>> \o S_paq8px, <<46, 112, 97, 113>> }

\* The algorithm a suffix stands for: every ".paq..." is paq8px, any other
\* suffix names its algorithm.
AlgoOfSuffix(k) ==
    IF SubSeq(k, 1, 4) = <<46, 112, 97, 113>> THEN S_paq8px ELSE Tail(k)

\* The longest known suffix the lowered file name ends with.
LongestSuffix ==
    CHOOSE k \in KnownSuffixes :
        /\ endswith(lower(r_name), k)
        /\ \A k2 \in KnownSuffixes : endswith(lower(r_name), k2) => Len(k2) <= Len(k)

\* The first of the name patterns, in list order, found in the file name.
FirstPattern ==
    IF search_token(r_name, S_cmix, TRUE) THEN S_cmix
    ELSE IF search_token(r_name, S_gmix, TRUE) THEN S_gmix
    ELSE IF search_token(r_name, S_bsc, TRUE) THEN S_bsc
    ELSE IF search_token(r_name, S_lstm, FALSE) THEN S_lstm
    ELSE S_paq8px

\* C24: detection asks the manifest, then the suffix, then the name
\* patterns, and the first that yields an algorithm decides; the suffixes
\* are tested from the longest to the shortest, .paq8px before .paq8 and
\* .paq.
C24_DetectionOrder ==
    /\ (Decided /\ ManifestIdentifies) =>
          r_algo = Some(lower(strip(Val(Val(r_manifest).algorithm))))
    /\ (Decided /\ ~ManifestIdentifies /\ SuffixIdentifies) =>
          r_algo = Some(AlgoOfSuffix(LongestSuffix))
    /\ (Decided /\ ~ManifestIdentifies /\ ~SuffixIdentifies /\ NameIdentifies) =>
          r_algo = Some(FirstPattern)
    /\ \A i, j \in 1..Len(EXT_BY_LENGTH) :
          i < j => Len(EXT_BY_LENGTH[i].ext) >= Len(EXT_BY_LENGTH[j].ext)
    /\ { EXT_BY_LENGTH[i].ext : i \in 1..Len(EXT_BY_LENGTH) } = KnownSuffixes
    /\ EXT_BY_LENGTH[1].ext = <<46>> \o S_paq8px

\* cmix.gmix with no usable manifest: the suffix says gmix, the name
\* patterns would have said cmix, and gmix it is.
C24_Witness ==
    /\ r_name = <<99, 109, 105, 120, 46, 103, 109, 105, 120>>
    /\ ~ManifestIdentifies
    /\ r_algo = Some(S_gmix)
    /\ FirstPattern = S_cmix
    /\ r_pc = "done"

\* C25: in the search loop the copy count is the iteration index: the
\* counts packed so far are 1, 2, ..., it in this order, each iteration
\* packs its own index once, every logged row carries copies = iter, and
\* the index never exceeds MAX_ITERS.
C25_CopiesFollowIteration ==
    /\ copies = it
    /\ it <= MAX_ITERS
    /\ packed = [j \in 1..it |-> j]
    /\ \A j \in 1..Len(csv) : csv[j].copies = csv[j].iter
    /\ ~IsNone(best) => Val(best).copies = Val(best).iter

\* The loop has run up to the ceiling and the run has finished.
C25_Witness ==
    /\ pc = "done"
    /\ it = MAX_ITERS
    /\ copies = MAX_ITERS
    /\ Len(packed) = MAX_ITERS
    /\ Len(csv) = MAX_ITERS

\* q is floor(size / max(0.30 * bps, 1)) for the positive throughput bps =
\* num / den: with 0.30 * bps <= 1 it is the size, else the integer with
\* q * 3 * num <= size * 10 * den < (q + 1) * 3 * num.
IsQuotient(q, size, bps) ==
    IF 3 * bps.num <= 10 * bps.den THEN q = size
    ELSE /\ q * 3 * bps.num <= size * 10 * bps.den
         /\ size * 10 * bps.den < (q + 1) * 3 * bps.num

\* A call's result is max(TIMEOUT_BASE_SEC, floor(...) + margin): above the
\* base it shows the quotient, at the base the quotient is at most base -
\* margin.
IsAdaptiveEstimate(c) ==
    LET bps == Val(c.bps)
        top == TIMEOUT_BASE_SEC - ADAPTIVE_SAFETY_MARGIN
    IN  /\ c.timeout >= TIMEOUT_BASE_SEC
        /\ c.timeout > TIMEOUT_BASE_SEC =>
              IsQuotient(c.timeout - ADAPTIVE_SAFETY_MARGIN, c.size, bps)
        /\ c.timeout = TIMEOUT_BASE_SEC =>
              IF 3 * bps.num <= 10 * bps.den THEN c.size <= top
              ELSE c.size * 10 * bps.den < (top + 1) * 3 * bps.num

\* C26: with no usable prior throughput (none, zero or negative) the
\* estimate is TIMEOUT_BASE_SEC + ADAPTIVE_SAFETY_MARGIN whatever the size;
\* with a positive one it is max(TIMEOUT_BASE_SEC, floor(size / max(0.30 *
\* throughput, 1)) + ADAPTIVE_SAFETY_MARGIN).
C26_EstimatorValues ==
    \A c \in {e_prev, e_last} :
        IF IsNone(c.bps) \/ Val(c.bps).num <= 0
        THEN c.timeout = TIMEOUT_BASE_SEC + ADAPTIVE_SAFETY_MARGIN
        ELSE IsAdaptiveEstimate(c)

\* A call without throughput on the largest size, then a call at 1/100
\* byte per second whose estimate is the size plus the margin.
C26_Witness ==
    /\ IsNone(e_prev.bps)
    /\ e_prev.size = 2000000
    /\ e_prev.timeout = 15000
    /\ e_last.bps = Some([num |-> 1, den |-> 100])
    /\ e_last.size = 100000
    /\ e_last.timeout = 100600

\* C27: a zero-exit adapter call gives back metrics whatever the tool
\* printed: a field the text does not yield is the input file's size
\* (original), the output file's size when that file exists and null when
\* not (compressed), the measured wall-clock time (elapsed); no error comes
\* from the parsing, the only error after a zero exit being the missing
\* output file.
C27_AdapterFallback ==
    ~IsNone(adapter_ret) =>
        LET r == Val(adapter_ret)
        IN  /\ IsNone(r.log.original) => r.meta.original = cont_bytes
            /\ IsNone(r.log.compressed) =>
                  /\ r.meta.compressed = r.out_size
                  /\ IsNone(r.out_size) <=> ~r.out_exists
            /\ IsNone(r.log.time_s) => r.meta.time_s = r.elapsed
            /\ pc = "fatal" =>
                  /\ err = Some([kind |-> "RuntimeError", detail |-> "missing_output"])
                  /\ ~r.out_exists
            /\ (r.log = NoLog /\ ~IsNone(r.out_size)) =>
                  /\ pc # "fatal"
                  /\ LastRow.iter = it
                  /\ LastRow.compressed = r.out_size
                  /\ LastRow.time_s = r.elapsed

\* The tool printed nothing the parser knows and left an output of half
\* the container's size: the iteration is logged with the fallback values
\* and has become the best.
C27_Witness ==
    /\ ~IsNone(adapter_ret)
    /\ Val(adapter_ret).log = NoLog
    /\ Val(adapter_ret).out_size = Some(cont_bytes \div 2)
    /\ Val(adapter_ret).meta.original = cont_bytes
    /\ Val(adapter_ret).meta.time_s = 2
    /\ Val(best).iter = it
    /\ it = 2

\* The current iteration's adapter call has exited with status zero and
\* its output file exists.
IterationSucceeded == ~IsNone(adapter_ret) /\ Val(adapter_ret).out_exists

\* One row per succeeded iteration, in order: row j is iteration j, every
\* iteration before the current one has its row, and the current one has
\* its row exactly when its call has succeeded, accepted as best or not.
C28_Rows ==
    /\ \A j \in 1..Len(csv) : csv[j].iter = j
    /\ Len(csv) = IF IterationSucceeded THEN it ELSE Max(it - 1, 0)
    /\ (stop_due_timeout \/ (pc = "fatal" /\ ~IsNone(err)
                             /\ Val(err).kind = "TimeoutExpired")) =>
          Len(csv) = it - 1

\* A step leaves the log as it is or adds one row at its end.
C28_Step ==
    \/ csv' = csv
    \/ /\ Len(csv') = Len(csv) + 1
       /\ SubSeq(csv', 1, Len(csv)) = csv

\* C28: the CSV of a run is append-only: it gets exactly one row for each
\* iteration whose adapter call succeeded, in increasing iteration order,
\* the rejected stopping iteration included; an iteration that exhausts its
\* retries adds none; no existing row is ever rewritten.
C28_CsvAppendOnly == []C28_Rows /\ [][C28_Step]_vars

\* The second iteration was logged and rejected, the first stays the best
\* and its row is still the first of the log.
C28_Witness ==
    /\ pc = "done"
    /\ Len(csv) = 2
    /\ csv[1].iter = 1 /\ csv[1].reduction_pct >= THRESHOLD_PCT
    /\ csv[2].iter = 2 /\ csv[2].reduction_pct < THRESHOLD_PCT
    /\ Val(best).iter = 1
    /\ IterationSucceeded

\* The rows of the log whose reduction reaches the threshold.
AcceptedRows == {j \in 1..Len(csv) : csv[j].reduction_pct >= THRESHOLD_PCT}

\* While iteration i > 1 waits for its adapter call, best is iteration i - 1;
\* at any time best is the last accepted row of the log.
C29_BestState ==
    /\ (pc = "attempt" /\ it > 1) =>
          /\ ~IsNone(best)
          /\ Val(best).iter = it - 1
          /\ Val(best).copies = it - 1
    /\ ~IsNone(best) =>
          /\ AcceptedRows # {}
          /\ Val(best).iter \in AcceptedRows
          /\ \A j \in AcceptedRows : j <= Val(best).iter
          /\ Val(best).copies = Val(best).iter
    /\ IsNone(best) => AcceptedRows = {}

\* Once set, best is not reset and its iteration index does not go down.
C29_BestStep ==
    ~IsNone(best) =>
        /\ ~IsNone(best')
        /\ Val(best').iter >= Val(best).iter

\* C29: at the start of every iteration i > 1 the best record is iteration
\* i - 1 (best.iter = best.copies = i - 1); once set, best is never reset to
\* none and its iteration index only increases, so the final best is the
\* last accepted iteration, which need not be the one that reduced most.
C29_BestIsLastAccepted == []C29_BestState /\ [][C29_BestStep]_vars

\* The run ended with the second iteration as best although the first
\* iteration's row shows the larger reduction.
C29_Witness ==
    /\ pc = "done"
    /\ Len(csv) = 2
    /\ ~IsNone(best) /\ Val(best).iter = 2
    /\ csv[1].reduction_pct > csv[2].reduction_pct
    /\ csv[2].reduction_pct >= THRESHOLD_PCT

\* The loop has been left without an error and without a best record.
LeftLoopWithoutBest == pc \in {"finalize", "done"} /\ IsNone(best) /\ IsNone(err)

\* C30: the search loop exits normally with best = none only when iteration
\* 1 completed successfully with a reduction below THRESHOLD_PCT; the run
\* then ends without raising, copies iteration 1's container and compressed
\* file into the final directory and writes no manifest.json.
C30_NoBestFallback ==
    /\ (pc \in {"finalize", "done"} /\ IsNone(best)) =>
          /\ IsNone(err)
          /\ it = 1
          /\ IterationSucceeded
          /\ ~stop_due_timeout
          /\ Len(csv) = 1
          /\ csv[1].iter = 1
          /\ csv[1].reduction_pct < THRESHOLD_PCT
          /\ 1 \in containers /\ 1 \in outputs
          /\ ENABLED Finalize \/ pc = "done"
    /\ (pc = "done" /\ IsNone(best)) =>
          /\ IsNone(err)
          /\ final = Some([container |-> 1, output |-> 1, manifest |-> None])

\* A run ended with no best record: its first iteration was rejected and its
\* two files were copied without a manifest.
C30_Witness ==
    /\ pc = "done"
    /\ IsNone(best)
    /\ LeftLoopWithoutBest
    /\ ~IsNone(final) /\ IsNone(Val(final).manifest)
    /\ csv[1].reduction_pct < THRESHOLD_PCT

\* The step is an adapter invocation that timed out.
TimeoutStep == calls' = calls + 1 /\ last_call'.outcome = "timeout"

\* A timeout leaves best, the throughput, the iteration and its copy count
\* and the log alone; short of RETRY_MAX it raises the attempt by one and
\* doubles the budget and nothing else of the loop's state.
C31_TimeoutFrame ==
    TimeoutStep =>
        /\ best' = best /\ last_bps' = last_bps /\ it' = it /\ csv' = csv
        /\ copies' = copies /\ cont_bytes' = cont_bytes /\ final' = final
        /\ attempt < RETRY_MAX =>
              /\ attempt' = attempt + 1
              /\ timeout_s' = 2 * timeout_s
              /\ pc' = pc /\ err' = err /\ stop_due_timeout' = stop_due_timeout

\* After the retries ran out with a best, the manifest is that of the best
\* and not of the copy count that timed out.
C31_ManifestOfEarlierBest ==
    (pc = "done" /\ stop_due_timeout) =>
        /\ ~IsNone(best) /\ ~IsNone(final) /\ ~IsNone(Val(final).manifest)
        /\ LET m == Val(Val(final).manifest)
           IN  /\ m.best.iter = Val(best).iter
               /\ m.best.copies = Val(best).copies
               /\ m.best.copies = copies - 1
               /\ m.best.copies = csv[Len(csv)].copies
               /\ Len(m.inner_files) = m.best.copies
               /\ m.best.compressed_bytes = csv[Len(csv)].compressed

\* C31: a timed-out attempt changes only the attempt counter and the
\* timeout budget: best, the last throughput, the iteration index and the
\* CSV log are unchanged by any number of timeouts, and after the retries
\* are exhausted with a best the manifest describes that earlier best,
\* never the copy count that timed out.
C31_TimeoutsChangeNothingElse == []C31_ManifestOfEarlierBest /\ [][C31_TimeoutFrame]_vars

\* The second iteration timed out RETRY_MAX times after the first became
\* the best; the manifest is the first iteration's.
C31_Witness ==
    /\ pc = "done"
    /\ stop_due_timeout
    /\ it = 2 /\ copies = 2
    /\ calls = RETRY_MAX
    /\ Len(csv) = 1
    /\ Val(Val(final).manifest).best.copies = 1

\* The budget at the first attempt is the estimator's value for this
\* container and the throughput known now, and no attempt of the iteration
\* has a budget above that value times 2^(RETRY_MAX-1).
C32_BudgetState ==
    /\ (pc = "attempt" /\ attempt = 1) =>
          /\ timeout_s = est_timeout_adaptativo(cont_bytes, last_bps)
          /\ est0 = timeout_s
    /\ it >= 1 =>
          /\ timeout_s <= est0 * 2 ^ (RETRY_MAX - 1)
          /\ last_call.outcome # "none" => last_call.timeout <= est0 * 2 ^ (RETRY_MAX - 1)

\* Starting an iteration sets the budget from the estimator, whatever the
\* budget was; within an iteration the estimate it started from stays.
C32_BudgetStep ==
    IF it' # it
    THEN /\ timeout_s' = est_timeout_adaptativo(cont_bytes', last_bps')
         /\ attempt' = 1
    ELSE est0' = est0

\* C32: the doubled budget is local to one iteration: every iteration
\* starts its first attempt from a fresh estimator value, never from the
\* budget the iteration before had doubled, and within an iteration the
\* budget never exceeds the estimate times 2^(RETRY_MAX-1).
C32_BudgetLocalToIteration == []C32_BudgetState /\ [][C32_BudgetStep]_vars

\* The first iteration ended on a doubled budget; the second starts below
\* it, on the estimator's value.
C32_Witness ==
    /\ pc = "attempt"
    /\ it = 2 /\ attempt = 1 /\ calls = 0
    /\ last_call.outcome = "none"
    /\ last_call.timeout >= 2 * timeout_s
    /\ timeout_s = est_timeout_adaptativo(cont_bytes, last_bps)

\* The run is over: finalized, or stopped by an error.
Terminated == pc \in {"done", "fatal"}

\* At most MAX_ITERS iterations and RETRY_MAX invocations in each, so at
\* most MAX_ITERS * RETRY_MAX invocations in all; a run whose MAX_ITERS
\* iterations were all accepted is finalized with the last one as best.
C33_Bounds ==
    /\ it <= MAX_ITERS
    /\ calls <= RETRY_MAX
    /\ attempt <= RETRY_MAX
    /\ Len(packed) <= MAX_ITERS
    /\ (it - 1) * RETRY_MAX + calls <= MAX_ITERS * RETRY_MAX
    /\ (Len(csv) = MAX_ITERS /\ csv[MAX_ITERS].reduction_pct >= THRESHOLD_PCT) =>
          /\ ~IsNone(best) /\ Val(best).iter = MAX_ITERS
          /\ pc \in {"loop", "finalize", "done"}
          /\ ~ENABLED IterBegin
          /\ pc = "done" =>
                /\ IsNone(err)
                /\ Val(final).container = MAX_ITERS
                /\ Val(Val(final).manifest).best.iter = MAX_ITERS
    /\ ~Terminated => ENABLED Next

\* C33: with every adapter invocation returning, the search run always
\* terminates: it makes at most MAX_ITERS iterations and at most RETRY_MAX
\* invocations in each, hence at most MAX_ITERS * RETRY_MAX invocations,
\* and when it reaches MAX_ITERS with every iteration accepted it finalizes
\* with best = iteration MAX_ITERS.
C33_Terminates == []C33_Bounds /\ <>Terminated

\* MAX_ITERS iterations were all accepted and the run finalized the last.
C33_Witness ==
    /\ pc = "done"
    /\ it = MAX_ITERS
    /\ Len(csv) = MAX_ITERS
    /\ \A j \in 1..MAX_ITERS : csv[j].reduction_pct >= THRESHOLD_PCT
    /\ Val(best).iter = MAX_ITERS
    /\ Val(Val(final).manifest).best.copies = MAX_ITERS

\* The manifest a finished search run wrote, as the detector finds it
\* beside the final artifact.
WrittenManifest == ManifestFile(TRUE, Some(Val(Val(final).manifest).algorithm))

\* C34: the algorithm identifier each search script (gmix, paq8px, bsc)
\* writes into manifest.json is one the detector recognizes as supported,
\* so the detection of a finalized artifact beside its manifest is decided
\* by the manifest.
C34_ManifestAlgorithmRecognized ==
    (pc = "done" /\ ~IsNone(final) /\ ~IsNone(Val(final).manifest)) =>
        /\ Supported(lower(strip(Val(Val(final).manifest).algorithm)))
        /\ ~IsNone(load_manifest_algo_if_any(WrittenManifest))

\* The container file of iteration i, as pack_container wrote it, and the
\* entries a reader finds in it.
ContainerOfIteration(i) == pack_container(SrcData, packed[i], SrcBase)
EntriesOfIteration(i) == unpack_container(ContainerOfIteration(i))

\* C35: a manifest that is written agrees with the accepted best: its
\* reduction_pct is at least THRESHOLD_PCT, its copies equals its iter, and
\* its inner_files are exactly best.copies names, in order the names of the
\* entries pack_container wrote into the best container.
C35_ManifestConsistent ==
    (~IsNone(final) /\ ~IsNone(Val(final).manifest)) =>
        LET m == Val(Val(final).manifest)
            e == EntriesOfIteration(Val(best).iter)
        IN  /\ ~IsNone(best)
            /\ m.best.iter = Val(best).iter
            /\ m.best.reduction_pct >= THRESHOLD_PCT
            /\ m.best.reduction_pct = csv[m.best.iter].reduction_pct
            /\ m.best.copies = m.best.iter
            /\ Len(m.inner_files) = Val(best).copies
            /\ e.ok
            /\ Len(e.files) = Len(m.inner_files)
            /\ \A k \in 1..Len(m.inner_files) : m.inner_files[k] = e.files[k].name
            /\ Val(final).container = m.best.iter

\* A manifest for a best of two copies lists the two names of its container.
C35_Witness ==
    /\ pc = "done"
    /\ ~IsNone(final) /\ ~IsNone(Val(final).manifest)
    /\ Val(best).copies = 2
    /\ Val(Val(final).manifest).inner_files
          = <<ExpectedName(1, SrcBase), ExpectedName(2, SrcBase)>>
    /\ Len(EntriesOfIteration(2).files) = 2

\* The raw container is one of the files cut short after a whole first
\* entry: its header announces more than one entry and the sniff passed.
CutAfterFirstEntry ==
    /\ ~IsNone(r_raw)
    /\ Val(r_raw).kind = "blob"
    /\ Len(Val(r_raw).bytes) >= 4
    /\ unpack_le(SubSeq(Val(r_raw).bytes, 1, 4)) > 1
    /\ r_sniff = Some(TRUE)

\* C36: a blob with count > 1 that is truncated or malformed after its
\* first entry passes the sniff, and unpack_container then fails part-way,
\* the earlier entries' files already written: they stay, and neither the
\* inventory nor the manifest is written.
C36_CutContainerFailsPartWay ==
    /\ (~IsNone(r_raw) /\ Val(r_raw).kind = "blob" /\ ~IsNone(r_sniff)
          /\ Val(r_raw).bytes \in {TruncatedContainer, ShortDataContainer}) =>
          r_sniff = Some(TRUE)
    /\ (CutAfterFirstEntry /\ r_pc \notin {"stage2", "unpack"}) =>
          /\ r_pc = "fatal"
          /\ ~IsNone(r_err) /\ Val(r_err).kind = "struct.error"
          /\ Len(r_extracted) >= 1
          /\ r_dir # {}
          /\ IsNone(r_inventory)
          /\ IsNone(r_report)

\* The place of a control point in the restore run.
StageRank(p) ==
    CASE p = "setup" -> 0 [] p = "init" -> 1 [] p = "stage1" -> 2
      [] p = "stage2" -> 3 [] p = "unpack" -> 4 [] p = "report" -> 5
      [] p = "done" -> 6 [] p = "fatal" -> 7

\* Artifact sizes on both sides of TIMEOUT_BASE_SEC * 1000 bytes.
StageOneSizes == {0, 999, 4111, 3599999, 3600000, 3600999, 3601000, 50000000}

\* Stage 1 ended in a timeout or a non-zero exit.
StageOneFailed ==
    /\ ~IsNone(r_err)
    /\ \/ Val(r_err).kind = "TimeoutExpired"
       \/ Val(r_err).kind = "RuntimeError" /\ Val(r_err).detail \in ToolTexts

C37_StageState ==
    /\ StageRank(r_pc) \in 2..6 =>
          /\ ~IsNone(r_algo)
          /\ r_timeout >= RESTORE_TIMEOUT_BASE_SEC
          /\ r_timeout * 1000 <= Max(RESTORE_TIMEOUT_BASE_SEC * 1000,
                                     Len(Content(Val(r_artifact))))
          /\ (r_timeout + 1) * 1000 > Len(Content(Val(r_artifact)))
    /\ \A s \in StageOneSizes :
          /\ timeout_alg(s) >= RESTORE_TIMEOUT_BASE_SEC
          /\ timeout_alg(s) * 1000 <= Max(RESTORE_TIMEOUT_BASE_SEC * 1000, s)
          /\ (timeout_alg(s) + 1) * 1000 > s
    /\ StageRank(r_pc) \in 3..6 => (~IsNone(r_raw) /\ IsNone(r_err))
    /\ ~IsNone(r_sniff) => ~IsNone(r_raw)
    /\ (r_extracted # <<>> \/ r_dir # {}) => r_sniff = Some(TRUE)
    /\ StageOneFailed =>
          /\ r_pc = "fatal"
          /\ ~IsNone(r_algo)
          /\ IsNone(r_raw) /\ IsNone(r_sniff)
          /\ r_extracted = <<>> /\ r_dir = {}
          /\ IsNone(r_inventory) /\ IsNone(r_report)
    /\ r_pc = "fatal" => ~ENABLED RestoreNext

\* Every step moves the run forward: no stage is entered twice.
C37_StageStep == StageRank(r_pc') > StageRank(r_pc)

\* C37: the restore run takes its stages strictly in order and retries
\* nothing: detection comes before decompression, the sniff and the unpack
\* start only after the decompressor exited with status zero, a timeout or
\* a non-zero exit of the decompressor ends the run at stage 1 with nothing
\* extracted; the stage-1 timeout is
\* max(TIMEOUT_BASE_SEC, floor(artifact size / 1000)).
C37_StagesInOrder == []C37_StageState /\ [][C37_StageStep]_vars

\* The decompressor timed out: the algorithm had been detected, the budget
\* was the base, and the run ended with nothing extracted.
C37_Witness ==
    /\ r_pc = "fatal"
    /\ Val(r_err).kind = "TimeoutExpired"
    /\ ~IsNone(r_algo)
    /\ r_timeout = RESTORE_TIMEOUT_BASE_SEC
    /\ Len(Content(Val(r_artifact))) > 4000
    /\ r_dir = {}

\* What script v makes of an invocation that exits with status zero in the
\* current state: the tool wrote its output or not (wrote), printed log and
\* took elapsed seconds.  meta is what the adapter gives back; fatal and
\* accepted are the loop's decisions.
SuccessVerdict(v, wrote, fsize, log, elapsed) ==
    LET outs == IF wrote THEN outputs \cup {it} ELSE outputs_before_run(v, outputs, it)
        meta == adapter_meta(log, cont_bytes, it \in outs, fsize, elapsed)
        red  == pct_reduction(meta.original, meta.compressed)
    IN  [meta     |-> meta,
         fatal    |-> it \notin outs,
         accepted |-> it \in outs /\ accepts(red),
         bps      |-> next_bps(meta, last_bps)]

\* The first attempt of the iteration timed out and the killed tool left a
\* partial output: whichever script runs, the loop's state is the same.
AfterOnePartialTimeout ==
    /\ pc = "attempt"
    /\ calls = 1
    /\ last_call.outcome = "timeout" /\ last_call.wrote

\* C38: the gmix, paq8px and bsc search loops are the same state machine:
\* with the same constants and the same adapter outcomes so far, an
\* invocation that gives back the same metrics leads the three scripts to
\* the same decision (fatal, accepted as best, or stop).
C38_SameDecisions ==
    AfterOnePartialTimeout =>
        \A v1, v2 \in Variants, wrote \in BOOLEAN, fsize \in CompSizes(cont_bytes) :
            \A log \in Logs(v1, cont_bytes) \cap Logs(v2, cont_bytes) :
                LET d1 == SuccessVerdict(v1, wrote, fsize, log, 2)
                    d2 == SuccessVerdict(v2, wrote, fsize, log, 2)
                IN  d1.meta = d2.meta =>
                        /\ d1.fatal = d2.fatal
                        /\ d1.accepted = d2.accepted
                        /\ d1.bps = d2.bps

\* The cgroup path started the compressor and gave up: the attach failed
\* or cpu.stat is missing.
CgroupGaveUp ==
    /\ m_env.cg_root /\ m_env.cg_mkdir
    /\ ~m_env.attach \/ ~m_env.cpu_stat
    /\ m_launched >= 1

\* C39: when the cgroup path gives up after it started the compressor,
\* that process is killed and reaped before the pidstat fallback starts a
\* new one: at most one compressor writes the output file at any time, and
\* none is left running when the run has ended or failed.
C39_OneCompressorAtATime ==
    /\ m_running <= 1
    /\ (CgroupGaveUp /\ m_pc = "fallback") => m_running = 0
    /\ CgroupGaveUp => m_running <= m_launched - 1
    /\ (CgroupGaveUp /\ m_pc \in {"done", "fatal"}) => m_running = 0
=============================================================================
